---- MODULE Spec2Model ----
(***************************************************************************)
(* A model of the goverdrive robotics core: the track coordinate system,   *)
(* the vehicle state and commands, the ideal simulator, the collision      *)
(* detector and the robotics system's tick.                                *)
(*                                                                         *)
(* Units.  The source computes in float64 metres and seconds; the model    *)
(* computes in exact integers:                                             *)
(*   length        1 unit = 5e-6 m            (Meter = 200000 units)       *)
(*   time          1 tick = simDeltaT = 0.01 s (fdt = 1)                   *)
(*   speed         units per tick             (1 m/s   = 2000)             *)
(*   acceleration  units per tick^2           (1 m/s^2 = 20)               *)
(* With these units the constructor defaults (0.1 m/s^2, 0.1 m/s) and the  *)
(* term (cmdDacl/2)*fdt*fdt are integers.  A division the source does in   *)
(* floating point is an exact division here (ExactDiv): the model has no   *)
(* value for an inexact one, so TLC stops rather than round.               *)
(*                                                                         *)
(* Angles.  An angle is kept as the direction it points to: a primitive    *)
(* integer vector [c, s] (its cosine and sine up to the common factor      *)
(* Norm).  |angle| <= pi/2 is c >= 0; +pi and -pi are the same direction.  *)
(***************************************************************************)
EXTENDS Integers, Sequences, FiniteSets, Bags, TLC

VARIABLES trk,            \* System.Track (read-only after construction)
          now,            \* System.now, nanoseconds
          vehs,           \* System.Vehicles
          maxDimension,   \* CollisionDetector.maxDimension
          curCollisions,  \* CollisionDetector.curCollisions
          newCollisions,  \* CollisionDetector.newCollisions
          inputs,         \* the vehCollisionInputs of the last collision update
          op,             \* the last operation called
          ret,            \* what the last query returned
          pre,            \* the vehicles as they were when the last tick began
          ncmd            \* the number of vehicle commands given so far

vars == <<trk, now, vehs, maxDimension, curCollisions, newCollisions, inputs, op, ret, pre, ncmd>>

----------------------------------------------------------------------------
(* Arithmetic helpers *)

Abs(x) == IF x < 0 THEN -x ELSE x

Max(a, b) == IF a >= b THEN a ELSE b

Sign(x) == IF x > 0 THEN 1 ELSE IF x < 0 THEN -1 ELSE 0

RECURSIVE GcdNat(_, _)
GcdNat(a, b) == IF b = 0 THEN a ELSE GcdNat(b, a % b)

Gcd(a, b) == GcdNat(Abs(a), Abs(b))

\* a / b where the quotient is an integer; no value otherwise.
ExactDiv(a, b) == CHOOSE q \in {a \div b} : q * b = a

\* the element of a singleton set: The({e(v) : v \in {a}}) is e(a), with a
\* evaluated once and bound as a value
The(S) == CHOOSE v \in S : TRUE

\* x * a / b where that is an integer, with the common factor of x and b
\* taken out before the product
MulDiv(x, a, b) == The({ExactDiv((x \div g) * a, b \div g) : g \in {Gcd(x, b)}})

----------------------------------------------------------------------------
(* phys: units *)

Meter == 200000

\* simDeltaT = 1e7 * SimNanosecond
simDeltaT == 10000000

\* fdt := float64(dt) * 1e-9, in ticks
fdt == 1

\* A direction: the angle atan2(y, x).  atan2(0, 0) is 0.
Atan2(y, x) ==
    IF x = 0 /\ y = 0 THEN [c |-> 1, s |-> 0]
    ELSE LET g == Gcd(x, y) IN [c |-> x \div g, s |-> y \div g]

Angle0 == [c |-> 1, s |-> 0]
AnglePi == [c |-> -1, s |-> 0]
AngleHalfPi == [c |-> 0, s |-> 1]

\* The length of the direction vector; defined when it is an integer.
Norm(h) == CHOOSE n \in 1..(Abs(h.c) + Abs(h.s)) : n * n = h.c * h.c + h.s * h.s

\* NormalizeRadians(a + b): the sum of two angles, as a direction.
AddAngle(a, b) == Atan2(a.c * b.s + a.s * b.c, a.c * b.c - a.s * b.s)

----------------------------------------------------------------------------
(* track: road pieces.  A piece is [cenLen, radius, turn]: turn = 0 is a   *)
(* straight piece (dAngle = 0); turn = +1 / -1 is a left / right curve     *)
(* with dAngle = turn * cenLen / radius radians.                           *)

NewRoadPiece(cenLen, radius, turn) == [cenLen |-> cenLen, radius |-> radius, turn |-> turn]

IsStraight(rp) == rp.turn = 0

RpCurveRadius(rp, cofs) ==
    IF IsStraight(rp) THEN 0
    ELSE IF rp.turn < 0 THEN rp.radius + cofs
    ELSE rp.radius - cofs

----------------------------------------------------------------------------
(* track: Track *)

RECURSIVE EntryDofs(_, _)
EntryDofs(pieces, i) == IF i = 0 THEN 0 ELSE EntryDofs(pieces, i - 1) + pieces[i].cenLen

\* Go indexes pieces from 0; entryDofs[i] here is the entry of piece i (0-based),
\* entryDofs[NumRp] the track length.
NewTrack(width, maxCofs, pieces) ==
    [width |-> width,
     maxCofs |-> IF maxCofs = 0 THEN ExactDiv(width, 2) ELSE maxCofs,
     pieces |-> pieces,
     entryDofs |-> [i \in 0..Len(pieces) |-> EntryDofs(pieces, i)]]

NumRp(t) == Len(t.pieces)

CenLen(t) == t.entryDofs[Len(t.pieces)]

MaxCofs(t) == t.maxCofs

\* Rp(i) for a 0-based index i
Rp(t, i) == t.pieces[i + 1]

RECURSIVE RpiScan(_, _, _)
\* a faulty scan, which stops one piece early at a piece boundary
RECURSIVE RpiScanGeq(_, _, _)
RpiScanGeq(t, dofs, rpi) ==
    IF rpi > 0 /\ t.entryDofs[rpi] >= dofs THEN RpiScanGeq(t, dofs, rpi - 1) ELSE rpi

RpiScan(t, dofs, rpi) ==
    IF rpi > 0 /\ t.entryDofs[rpi] > dofs THEN RpiScan(t, dofs, rpi - 1) ELSE rpi

\* assertValidDofs panics outside [0, CenLen]: FALSE is the panic.
assertValidDofs(t, dofs) == dofs >= 0 /\ dofs <= CenLen(t)

\* The result is [rpi, rpDofs, panic]; a call that panics returns nothing,
\* which is panic = TRUE here.
RpiAndRpDofs(t, dofs) ==
    IF assertValidDofs(t, dofs)
    THEN LET rpi == RpiScan(t, dofs, Len(t.pieces) - 1)
             rpDofs == dofs - t.entryDofs[rpi]
         IN  [rpi |-> rpi,
              rpDofs |-> IF rpDofs > Rp(t, rpi).cenLen THEN Rp(t, rpi).cenLen ELSE rpDofs,
              panic |-> FALSE]
    ELSE [rpi |-> -1, rpDofs |-> 0, panic |-> TRUE]

\* RpiAt: the index before the first entry offset above dofs; the panic when
\* there is none has no value here.
RpiAt(t, dofs) ==
    CHOOSE r \in -1 .. NumRp(t) - 1 :
        /\ t.entryDofs[r + 1] > dofs
        /\ \A i \in 0 .. r : t.entryDofs[i] <= dofs

RECURSIVE NormalizeUp(_, _)
NormalizeUp(t, dofs) == IF dofs < 0 THEN NormalizeUp(t, dofs + CenLen(t)) ELSE dofs

\* a faulty second loop of NormalizeDofs, which takes off one track length at most
NormalizeDownOnce(t, dofs) == IF dofs >= CenLen(t) THEN dofs - CenLen(t) ELSE dofs

RECURSIVE NormalizeDown(_, _)
NormalizeDown(t, dofs) == IF dofs >= CenLen(t) THEN NormalizeDown(t, dofs - CenLen(t)) ELSE dofs

\* a faulty NormalizeDofs, which forgets the offsets below zero
NormalizeDofsNoUp(t, dofs) == NormalizeDown(t, dofs)

NormalizeDofs(t, dofs) == NormalizeDown(t, NormalizeUp(t, dofs))

\* a faulty DofsDist, which does not go round the finish line
DofsDistNoWrap(t, dofs1, dofs2) == Abs(dofs1 - dofs2)

DofsDist(t, dofs1, dofs2) ==
    LET dist == Abs(dofs1 - dofs2)
    IN  IF 2 * dist > CenLen(t) THEN CenLen(t) - dist ELSE dist

----------------------------------------------------------------------------
(* track: Region.  A region is [c1, len, width] with the start corner c1 a  *)
(* track point [Dofs, Cofs]; NewRegion takes 0 <= c1.Dofs < CenLen,         *)
(* len > 0 and width > 0, and panics otherwise.                             *)

NewRegion(c1, len, width) == [c1 |-> c1, len |-> len, width |-> width]

CrossesFinishLine(t, tr) == tr.c1.Dofs + tr.len >= CenLen(t)

\* a faulty ContainsPoint, which takes the far end of the region in
ContainsPointClosed(t, tr, p) ==
    IF p.Cofs < tr.c1.Cofs \/ p.Cofs >= tr.c1.Cofs + tr.width THEN FALSE
    ELSE LET dofs == NormalizeDofs(t, p.Dofs)
         IN  IF CrossesFinishLine(t, tr)
             THEN IF dofs >= tr.c1.Dofs THEN TRUE
                  ELSE dofs <= NormalizeDofs(t, tr.c1.Dofs + tr.len)
             ELSE ~(dofs < tr.c1.Dofs \/ dofs > tr.c1.Dofs + tr.len)

ContainsPoint(t, tr, p) ==
    IF p.Cofs < tr.c1.Cofs \/ p.Cofs >= tr.c1.Cofs + tr.width THEN FALSE
    ELSE LET dofs == NormalizeDofs(t, p.Dofs)
         IN  IF CrossesFinishLine(t, tr)
             THEN IF dofs >= tr.c1.Dofs THEN TRUE
                  ELSE dofs < NormalizeDofs(t, tr.c1.Dofs + tr.len)
             ELSE ~(dofs < tr.c1.Dofs \/ dofs >= tr.c1.Dofs + tr.len)

----------------------------------------------------------------------------
(* phys: Cartesian points and poses.  A point is [X, Y, D]: the point      *)
(* (X/D, Y/D) with D > 0, in lowest terms; a pose is [P, Theta], the       *)
(* struct Pose with its embedded Point.                                    *)

Pt(x, y, d) ==
    The({LET g == Gcd(Gcd(t[1], t[2]), t[3])
         IN  [X |-> t[1] \div g, Y |-> t[2] \div g, D |-> t[3] \div g] : t \in {<<x, y, d>>}})

PtAdd(p1, p2) ==
    The({Pt(p.X * q.D + q.X * p.D, p.Y * q.D + q.Y * p.D, p.D * q.D) : p \in {p1}, q \in {p2}})

PtSub(p1, p2) ==
    The({Pt(p.X * q.D - q.X * p.D, p.Y * q.D - q.Y * p.D, p.D * q.D) : p \in {p1}, q \in {p2}})

\* p1 turned by the angle theta about the origin
PtRot(p1, theta) ==
    The({Pt(p.X * h.c - p.Y * h.s, p.X * h.s + p.Y * h.c, p.D * Norm(h)) :
            p \in {p1}, h \in {theta}})

NegAngle(h) == [c |-> h.c, s |-> -h.s]

MkPose(pt, theta) == [P |-> pt, Theta |-> theta]

PosePoint(p) == p.P

\* p1.AdvancePose(p2): p2's displacement turned into p1's direction, then p2's turn.
AdvancePose(p1, p2) ==
    The({MkPose(PtAdd(PtRot(PosePoint(b), a.Theta), PosePoint(a)), AddAngle(a.Theta, b.Theta)) :
            a \in {p1}, b \in {p2}})

\* p1.RelativeTo(p2): p1 in p2's frame of reference.
RelativeTo(p1, p2) ==
    The({MkPose(PtRot(PtSub(PosePoint(a), PosePoint(b)), NegAngle(b.Theta)),
                AddAngle(a.Theta, NegAngle(b.Theta))) : a \in {p1}, b \in {p2}})

----------------------------------------------------------------------------
(* track: conversion to Cartesian poses *)

\* a curve of 90 degrees: cenLen is radius * pi / 2, to the length unit
IsQuarterTurn(rp) ==
    /\ rp.turn # 0
    /\ 1570 * rp.radius <= 1000 * rp.cenLen
    /\ 1000 * rp.cenLen <= 1571 * rp.radius

\* RoadPiece.DeltaPose of a straight piece and of a curve of 90 degrees, which
\* ends at (rc, rc) or (rc, -rc) turned by pi / 2 or -pi / 2.  The pose delta
\* of another curve is a sine and a cosine of its angle, which integer
\* arithmetic does not have: the model has no value for it.
DeltaPose(rp) ==
    IF IsStraight(rp) THEN MkPose(Pt(rp.cenLen, 0, 1), Angle0)
    ELSE CHOOSE p \in {MkPose(Pt(rp.radius, rp.turn * rp.radius, 1), [c |-> 0, s |-> rp.turn])} :
            IsQuarterTurn(rp)

\* entryPoses[i], as NewTrack chains it from the origin
RECURSIVE RpEntryPose(_, _)
RpEntryPose(t, i) ==
    IF i = 0 \/ i = Len(t.pieces) THEN MkPose(Pt(0, 0, 1), Angle0)
    ELSE AdvancePose(RpEntryPose(t, i - 1), DeltaPose(Rp(t, i - 1)))

\* entryPoses[i] inside NewTrack: the pose after the first i pieces
RECURSIVE EntryPoses(_, _)
EntryPoses(pieces, i) ==
    IF i = 0 THEN MkPose(Pt(0, 0, 1), Angle0)
    ELSE AdvancePose(EntryPoses(pieces, i - 1), DeltaPose(pieces[i]))

\* a faulty NewTrack, which takes a negative maxCofs
NewTrackErrorAnyMaxCofs(width, maxCofs, pieces) ==
    IF Len(pieces) < 4 THEN "too small"
    ELSE IF width <= 0 THEN "invalid width"
    ELSE IF EntryPoses(pieces, Len(pieces)) = MkPose(Pt(0, 0, 1), Angle0) THEN "nil"
    ELSE "not a loop"

\* the error NewTrack returns, "nil" for none.  maxCofs = 0 stands for
\* width / 2, which is not negative where it is looked at.
NewTrackError(width, maxCofs, pieces) ==
    IF Len(pieces) < 4 THEN "too small"
    ELSE IF width <= 0 THEN "invalid width"
    ELSE IF maxCofs < 0 THEN "invalid maxCofs"
    ELSE IF EntryPoses(pieces, Len(pieces)) = MkPose(Pt(0, 0, 1), Angle0) THEN "nil"
    ELSE "not a loop"

\* math.Abs(percent) > 1.0e-6, with percent = rpDofs / cenLen and rpDofs >= 0
ToPose(t, tp) ==
    LET along(r, rp, entry) ==
            IF r.rpDofs > rp.cenLen \div 1000000
            THEN AdvancePose(entry, DeltaPose(NewRoadPiece(r.rpDofs, rp.radius, rp.turn)))
            ELSE entry
        side(r) == AdvancePose(along(r, Rp(t, r.rpi), RpEntryPose(t, r.rpi)),
                               MkPose(Pt(0, tp.Cofs, 1), Angle0))
    IN  The({[p EXCEPT !.Theta = AddAngle(p.Theta, tp.DAngle)] :
                p \in {side(The({RpiAndRpDofs(t, dofs) : dofs \in {NormalizeDofs(t, tp.Dofs)}}))}})

----------------------------------------------------------------------------
(* track: driving distances.  A track pose is [Dofs, Cofs, DAngle].         *)

\* RoadPiece.Len: cenLen - cofs * dAngle, with dAngle = turn * cenLen / radius
RpLen(rp, cofs) ==
    IF IsStraight(rp) THEN rp.cenLen
    ELSE rp.cenLen - ExactDiv(cofs * rp.turn * rp.cenLen, rp.radius)

RECURSIVE TrackLenFrom(_, _, _)
TrackLenFrom(t, cofs, i) ==
    IF i >= NumRp(t) THEN 0 ELSE RpLen(Rp(t, i), cofs) + TrackLenFrom(t, cofs, i + 1)

\* Track.Len
TrackLen(t, cofs) == TrackLenFrom(t, cofs, 0)

\* Track.isFacingTrackwise: |dangle| <= pi / 2
TrkIsFacingTrackwise(dangle) == dangle.c >= 0

\* a faulty DriveDofsDist, which measures trackwise whatever the facing
DriveDofsDistTrackwise(t, a, dofs) == NormalizeDofs(t, dofs - a.Dofs)

DriveDofsDist(t, a, dofs) ==
    IF TrkIsFacingTrackwise(a.DAngle) THEN NormalizeDofs(t, dofs - a.Dofs)
    ELSE NormalizeDofs(t, a.Dofs - dofs)

\* the loop of DriveDist over the pieces from rpi1 on: passes i .. rpCount - 1
RECURSIVE DriveDistLoop(_, _, _, _, _)
DriveDistLoop(t, cofs, r1, i, rpCount) ==
    IF i >= rpCount THEN 0
    ELSE LET j == IF i + r1.rpi >= NumRp(t) THEN i + r1.rpi - NumRp(t) ELSE i + r1.rpi
             rp == Rp(t, j)
             part == IF j = r1.rpi
                     THEN MulDiv(RpLen(rp, cofs), rp.cenLen - r1.rpDofs, rp.cenLen)
                     ELSE RpLen(rp, cofs)
         IN  part + DriveDistLoop(t, cofs, r1, i + 1, rpCount)

\* a faulty DriveDist, which takes the shorter way round
DriveDistShortest(t, p, dofs) == DofsDist(t, p.Dofs, dofs)

DriveDist(t, p, dofs) ==
    LET dofs1 == IF TrkIsFacingTrackwise(p.DAngle) THEN p.Dofs ELSE dofs
        dofs2 == IF TrkIsFacingTrackwise(p.DAngle) THEN dofs ELSE p.Dofs
        sameRp(r1) ==
            LET rp == Rp(t, r1.rpi)
            IN  IF ~ IsStraight(rp)
                THEN MulDiv(RpCurveRadius(rp, p.Cofs), dofs2 - dofs1, RpCurveRadius(rp, 0))
                ELSE dofs2 - dofs1
        across(r1, r2) ==
            LET rpCount == IF r2.rpi <= r1.rpi THEN r2.rpi - r1.rpi + NumRp(t)
                           ELSE r2.rpi - r1.rpi
                rp2 == Rp(t, r2.rpi)
            IN  DriveDistLoop(t, p.Cofs, r1, 0, rpCount)
                    + MulDiv(RpLen(rp2, p.Cofs), r2.rpDofs, rp2.cenLen)
    IN  The({IF r1.rpi = r2.rpi /\ dofs2 >= dofs1 THEN sameRp(r1) ELSE across(r1, r2) :
                r1 \in {RpiAndRpDofs(t, dofs1)}, r2 \in {RpiAndRpDofs(t, dofs2)}})

\* a faulty DriveDeltaDist, which halves the length of the road centre
DriveDeltaDistCen(t, p, dofs) ==
    IF 2 * DriveDist(t, p, dofs) > CenLen(t) THEN DriveDist(t, p, dofs) - CenLen(t)
    ELSE DriveDist(t, p, dofs)

DriveDeltaDist(t, p, dofs) ==
    The({IF 2 * dd > len THEN dd - len ELSE dd :
            len \in {TrackLen(t, p.Cofs)}, dd \in {DriveDist(t, p, dofs)}})

\* a faulty DriveDeltaDofs, which counts half a track length as behind
DriveDeltaDofsGeq(t, a, dofs) ==
    IF 2 * DriveDofsDist(t, a, dofs) >= CenLen(t) THEN DriveDofsDist(t, a, dofs) - CenLen(t)
    ELSE DriveDofsDist(t, a, dofs)

DriveDeltaDofs(t, a, dofs) ==
    The({IF 2 * driveDofs > CenLen(t) THEN driveDofs - CenLen(t) ELSE driveDofs :
            driveDofs \in {DriveDofsDist(t, a, dofs)}})

\* a faulty DriveDeltaCofs, which ignores the facing
DriveDeltaCofsTrack(t, a, cofs) == cofs - a.Cofs

DriveDeltaCofs(t, a, cofs) ==
    IF TrkIsFacingTrackwise(a.DAngle) THEN cofs - a.Cofs ELSE -(cofs - a.Cofs)

----------------------------------------------------------------------------
(* robo: Vehicle *)

vehTypeInfoTable ==
    [gs |-> [Width |-> 8800, Length |-> 16000],
     fw |-> [Width |-> 8800, Length |-> 48000]]

DefUturnRadius == 10000

\* The odometer is a sum of square roots, kept exactly as a bag of radicands:
\* the bag holds r with multiplicity k for a total of k * sqrt(r).
NewVehicle(vt, trackLen) ==
    [trackLen |-> trackLen,
     vtype |-> vt,
     odom |-> EmptyBag,
     curPose |-> [Dofs |-> 0, Cofs |-> 0, DAngle |-> Angle0],
     curVel |-> [D |-> 0, C |-> 0],
     cmdDspd |-> 0,
     cmdDacl |-> 2,
     desDspd |-> 0,
     cmdCofs |-> 0,
     cmdCspd |-> 200,
     desCofs |-> 0]

VehWidth(v) == vehTypeInfoTable[v.vtype].Width

VehLength(v) == vehTypeInfoTable[v.vtype].Length

IsFacingTrackwise(v) == v.curPose.DAngle.c >= 0

\* a faulty Reposition, which restarts the odometer
RepositionResetOdom(v, p) ==
    [v EXCEPT !.curPose = p, !.desCofs = p.Cofs, !.cmdCofs = p.Cofs, !.odom = EmptyBag]

\* a faulty Reposition, which keeps the commanded offset
RepositionKeepCmd(v, p) == [v EXCEPT !.curPose = p, !.desCofs = p.Cofs]

Reposition(v, p) == [v EXCEPT !.curPose = p, !.desCofs = p.Cofs, !.cmdCofs = p.Cofs]

SetCmdDriveDspd(v, vs, va) == [v EXCEPT !.cmdDspd = vs, !.cmdDacl = va]

SetCmdDriveCofs(v, cofs, speed) ==
    [v EXCEPT !.cmdCofs = IF IsFacingTrackwise(v) THEN cofs ELSE -cofs,
              !.cmdCspd = speed]

SetCmdTrackCofs(v, cofs, speed) == [v EXCEPT !.cmdCofs = cofs, !.cmdCspd = speed]

\* a faulty CmdUturn, which moves the vehicle across and keeps its heading
CmdUturnNoFlip(v, radius) ==
    LET tp == v.curPose
        cofs == IF tp.Cofs < 0 THEN tp.Cofs + radius * 2 ELSE tp.Cofs - radius * 2
    IN  Reposition(v, [Dofs |-> tp.Dofs, Cofs |-> cofs, DAngle |-> tp.DAngle])

CmdUturn(v, radius) ==
    LET tp == v.curPose
        cofs == IF tp.Cofs < 0 THEN tp.Cofs + radius * 2 ELSE tp.Cofs - radius * 2
        dangle == IF IsFacingTrackwise(v) THEN AnglePi ELSE Angle0
    IN  Reposition(v, [Dofs |-> tp.Dofs, Cofs |-> cofs, DAngle |-> dangle])

----------------------------------------------------------------------------
(* robo: IdealSimulator *)

\* sqrt(a*a + b*b) as a bag: g * sqrt(r) with g = gcd(a, b).
PathLenBag(a, b) ==
    LET g == Gcd(a, b)
    IN  IF g = 0 THEN EmptyBag
        ELSE [r \in {(a \div g) * (a \div g) + (b \div g) * (b \div g)} |-> g]

\* a faulty speed ramp, which does not stop at the commanded speed
SimDesDspdNoClamp(desDspd, cmdDspd, cmdDacl) ==
    IF desDspd < cmdDspd THEN desDspd + fdt * cmdDacl
    ELSE IF desDspd > cmdDspd THEN desDspd - fdt * cmdDacl
    ELSE desDspd

\* the speed ramp: desDspd after the tick
SimDesDspd(desDspd, cmdDspd, cmdDacl) ==
    LET dspdDelta == fdt * cmdDacl
    IN  IF Abs(desDspd - cmdDspd) <= dspdDelta THEN cmdDspd
        ELSE IF desDspd < cmdDspd THEN desDspd + dspdDelta
        ELSE desDspd - dspdDelta

\* deltaFwd, from the speed the ramp has just produced
SimDeltaFwd(curDspd, cmdDacl) == (curDspd * fdt) + (ExactDiv(cmdDacl, 2) * fdt * fdt)

\* deltaDofs: deltaFwd scaled by CurveRadius(0) / CurveRadius(cofs) in a curve
SimDeltaDofs(rp, cofs, deltaFwd) ==
    IF RpCurveRadius(rp, 0) # 0
    THEN ExactDiv(deltaFwd * RpCurveRadius(rp, 0), RpCurveRadius(rp, cofs))
    ELSE deltaFwd

\* a faulty limit, which leaves the commanded offset as it was given
SimCmdCofsUnclamped(t, cmdCofs) == cmdCofs

\* the commanded offset, kept in the drivable part of the track
SimCmdCofs(t, cmdCofs) ==
    IF cmdCofs < -MaxCofs(t) THEN -MaxCofs(t)
    ELSE IF cmdCofs > MaxCofs(t) THEN MaxCofs(t)
    ELSE cmdCofs

\* a faulty lateral move, which always takes the full step
SimLateralFullStep(desCofs, cmdCofs, cmdCspd) ==
    LET curCspd == Abs(cmdCspd)
        maxDeltaCofs == fdt * curCspd
    IN  IF desCofs < cmdCofs
        THEN [hvel |-> curCspd, abs |-> maxDeltaCofs, des |-> desCofs + maxDeltaCofs]
        ELSE IF desCofs > cmdCofs
        THEN [hvel |-> -curCspd, abs |-> maxDeltaCofs, des |-> desCofs - maxDeltaCofs]
        ELSE [hvel |-> 0, abs |-> 0, des |-> desCofs]

\* the lateral move: horizontal velocity, |deltaCofs| and the new desCofs
SimLateral(desCofs, cmdCofs, cmdCspd) ==
    LET curCspd == Abs(cmdCspd)
        maxDeltaCofs == fdt * curCspd
    IN  IF desCofs < cmdCofs
        THEN IF desCofs + maxDeltaCofs > cmdCofs
             THEN [hvel |-> curCspd, abs |-> cmdCofs - desCofs, des |-> cmdCofs]
             ELSE [hvel |-> curCspd, abs |-> maxDeltaCofs, des |-> desCofs + maxDeltaCofs]
        ELSE IF desCofs > cmdCofs
        THEN IF desCofs - maxDeltaCofs < cmdCofs
             THEN [hvel |-> -curCspd, abs |-> desCofs - cmdCofs, des |-> cmdCofs]
             ELSE [hvel |-> -curCspd, abs |-> maxDeltaCofs, des |-> desCofs - maxDeltaCofs]
        ELSE [hvel |-> 0, abs |-> 0, des |-> desCofs]

\* a faulty loop body, which takes the heading from the forward speed alone
SimTickVehForward(t, veh) ==
    LET rpi == RpiAndRpDofs(t, veh.curPose.Dofs).rpi
        rp == Rp(t, rpi)
        desDspd == SimDesDspd(veh.desDspd, veh.cmdDspd, veh.cmdDacl)
        curDspd == desDspd
        deltaFwd == SimDeltaFwd(curDspd, veh.cmdDacl)
        deltaDofs == SimDeltaDofs(rp, veh.curPose.Cofs, deltaFwd)
        cmdCofs == SimCmdCofs(t, veh.cmdCofs)
        lat == SimLateral(veh.desCofs, cmdCofs, veh.cmdCspd)
        velD == IF IsFacingTrackwise(veh) THEN curDspd ELSE -curDspd
        dofs == IF IsFacingTrackwise(veh) THEN veh.curPose.Dofs + deltaDofs
                ELSE veh.curPose.Dofs - deltaDofs
        dangle == IF curDspd > 0 THEN Atan2(lat.hvel, curDspd) ELSE veh.curPose.DAngle
    IN  [veh EXCEPT !.cmdCofs = cmdCofs,
                    !.desDspd = desDspd,
                    !.desCofs = lat.des,
                    !.curVel = [D |-> velD, C |-> lat.hvel],
                    !.curPose = [Dofs |-> NormalizeDofs(t, dofs), Cofs |-> lat.des, DAngle |-> dangle],
                    !.odom = veh.odom (+) PathLenBag(deltaFwd, lat.abs)]

\* The body of the simulator's loop, for one vehicle.
SimTickVeh(t, veh) ==
    LET rpi == RpiAndRpDofs(t, veh.curPose.Dofs).rpi
        rp == Rp(t, rpi)
        desDspd == SimDesDspd(veh.desDspd, veh.cmdDspd, veh.cmdDacl)
        curDspd == desDspd
        deltaFwd == SimDeltaFwd(curDspd, veh.cmdDacl)
        deltaDofs == SimDeltaDofs(rp, veh.curPose.Cofs, deltaFwd)
        cmdCofs == SimCmdCofs(t, veh.cmdCofs)
        lat == SimLateral(veh.desCofs, cmdCofs, veh.cmdCspd)
        velD == IF IsFacingTrackwise(veh) THEN curDspd ELSE -curDspd
        dofs == IF IsFacingTrackwise(veh) THEN veh.curPose.Dofs + deltaDofs
                ELSE veh.curPose.Dofs - deltaDofs
        dangle == IF curDspd > 0 THEN Atan2(lat.hvel, velD) ELSE veh.curPose.DAngle
    IN  [veh EXCEPT !.cmdCofs = cmdCofs,
                    !.desDspd = desDspd,
                    !.desCofs = lat.des,
                    !.curVel = [D |-> velD, C |-> lat.hvel],
                    !.curPose = [Dofs |-> NormalizeDofs(t, dofs), Cofs |-> lat.des, DAngle |-> dangle],
                    !.odom = veh.odom (+) PathLenBag(deltaFwd, lat.abs)]

SimTick(t, vs) == [v \in DOMAIN vs |-> SimTickVeh(t, vs[v])]

----------------------------------------------------------------------------
(* robo: CollisionDetector.  Vehicles are numbered from 0, as in the       *)
(* source; a map is a function whose domain is its set of keys.            *)

EmptyMap == [p \in {} |-> 0]

\* the vehPair keys the loops visit: v1 < v2
VehPairs(n) == {p \in (0..(n - 1)) \X (0..(n - 1)) : p[1] < p[2]}

NewCollisionDetector(vs) ==
    [p \in VehPairs(Cardinality(DOMAIN vs)) |->
        LET lmax == Max(VehLength(vs[p[1]]), VehLength(vs[p[2]]))
            wmax == Max(VehWidth(vs[p[1]]), VehWidth(vs[p[2]]))
        IN  Max(lmax, wmax)]

\* the vehCollisionInputs CollisionDetector.update builds from the vehicles
CollisionInputs(t, vs) ==
    [v \in DOMAIN vs |->
        [dofs |-> vs[v].curPose.Dofs,
         pose |-> ToPose(t, vs[v].curPose),
         len |-> VehLength(vs[v]),
         width |-> VehWidth(vs[v])]]

\* the four corners of a vehicle, in absolute Cartesian space:
\* front L, front R, back L, back R
CornersAbs(in) ==
    LET hl == ExactDiv(in.len, 2)
        hw == ExactDiv(in.width, 2)
        corner(x, y) == PosePoint(AdvancePose(in.pose, MkPose(Pt(x, y, 1), Angle0)))
    IN  <<corner(hl, hw), corner(hl, -hw), corner(-hl, hw), corner(-hl, -hw)>>

\* whether the absolute point cp lies in the rectangle of the reference vehicle
CornerInside(cp, rv) ==
    LET rvHalfLen == ExactDiv(rv.len, 2)
        rvHalfWid == ExactDiv(rv.width, 2)
    IN  \E rel \in {PosePoint(RelativeTo(MkPose(cp, Angle0), rv.pose))} :
            ~ (\/ rel.X > rvHalfLen * rel.D
               \/ rel.X < -rvHalfLen * rel.D
               \/ rel.Y > rvHalfWid * rel.D
               \/ rel.Y < -rvHalfWid * rel.D)

RECURSIVE PtSum(_)
PtSum(ps) == IF ps = <<>> THEN Pt(0, 0, 1) ELSE PtAdd(Head(ps), PtSum(Tail(ps)))

\* in2 is the pair <<inputs[0], inputs[1]>>; rv = 0 takes the corners of
\* vehicle 1 against vehicle 0, rv = 1 the corners of vehicle 0 against vehicle 1.
calcPointOfImpact(in2) ==
    LET hits(rv, ov) == SelectSeq(CornersAbs(ov), LAMBDA cp : CornerInside(cp, rv))
    IN  The({IF Len(collisionPoints) = 0
             THEN [isCollision |-> FALSE, poi |-> Pt(0, 0, 1)]
             ELSE The({[isCollision |-> TRUE,
                        poi |-> Pt(sum.X, sum.Y, sum.D * Len(collisionPoints))] :
                            sum \in {PtSum(collisionPoints)}}) :
                collisionPoints \in {hits(in2[1], in2[2]) \o hits(in2[2], in2[1])}})

\* a faulty prune, which lets every pair through
NeverPruned(t, maxDim, allInputs, pair) == FALSE

\* the broad-phase prune of updateHelper
IsPruned(t, maxDim, allInputs, pair) ==
    DofsDist(t, allInputs[pair[1]].dofs, allInputs[pair[2]].dofs) > maxDim[pair]

NewEvent(tnow, allInputs, pair, absPOI) ==
    The({[ImpactTime |-> tnow,
          VehInfo |-> <<[Id |-> pair[1],
                         POI |-> PosePoint(RelativeTo(impactPose, allInputs[pair[1]].pose))],
                        [Id |-> pair[2],
                         POI |-> PosePoint(RelativeTo(impactPose, allInputs[pair[2]].pose))]>>] :
            impactPose \in {MkPose(absPOI, Angle0)}})

\* what updateHelper decides for one pair: "pruned", "apart", "ongoing" or "new"
PairVerdict(t, maxDim, cur, allInputs, pair) ==
    IF IsPruned(t, maxDim, allInputs, pair) THEN "pruned"
    ELSE IF ~ calcPointOfImpact(<<allInputs[pair[1]], allInputs[pair[2]]>>).isCollision THEN "apart"
    ELSE IF pair \in DOMAIN cur THEN "ongoing"
    ELSE "new"

\* a faulty updateHelper, which forgets the new event of a pair that separates
updateHelperForgetful(tnow, t, maxDim, cur, new, allInputs) ==
    LET pairs == VehPairs(Cardinality(DOMAIN allInputs))
        verdict(pair) == PairVerdict(t, maxDim, cur, allInputs, pair)
        event(pair) ==
            NewEvent(tnow, allInputs, pair,
                     calcPointOfImpact(<<allInputs[pair[1]], allInputs[pair[2]]>>).poi)
        fresh == {pair \in pairs : verdict(pair) = "new"}
        kept == {pair \in DOMAIN cur : pair \notin pairs \/ verdict(pair) = "ongoing"}
        keptNew == {pair \in DOMAIN new : pair \notin pairs \/ verdict(pair) = "ongoing"}
    IN  [cur |-> [pair \in kept \cup fresh |->
                    IF pair \in fresh THEN event(pair) ELSE cur[pair]],
         new |-> [pair \in keptNew \cup fresh |->
                    IF pair \in fresh THEN event(pair) ELSE new[pair]]]

\* updateHelper: each pair reads and writes the entries of its own key only, so
\* the loops' result is given pair by pair.  The result is [cur, new].
updateHelper(tnow, t, maxDim, cur, new, allInputs) ==
    LET pairs == VehPairs(Cardinality(DOMAIN allInputs))
        verdict(pair) == PairVerdict(t, maxDim, cur, allInputs, pair)
        event(pair) ==
            NewEvent(tnow, allInputs, pair,
                     calcPointOfImpact(<<allInputs[pair[1]], allInputs[pair[2]]>>).poi)
        fresh == {pair \in pairs : verdict(pair) = "new"}
        kept == {pair \in DOMAIN cur : pair \notin pairs \/ verdict(pair) = "ongoing"}
    IN  [cur |-> [pair \in kept \cup fresh |->
                    IF pair \in fresh THEN event(pair) ELSE cur[pair]],
         new |-> [pair \in DOMAIN new \cup fresh |->
                    IF pair \in fresh THEN event(pair) ELSE new[pair]]]

\* the events of a map, in the order a range over a Go map may give them
EventLists(m) ==
    LET n == Cardinality(DOMAIN m)
    IN  {[i \in 1..n |-> m[f[i]]] : f \in {g \in [1..n -> DOMAIN m] :
                                              \A i, j \in 1..n : i # j => g[i] # g[j]}}

----------------------------------------------------------------------------
(* Bounds *)

\* ticks per behaviour
MaxTicks == 3

\* vehicle commands per behaviour
MaxCmds == 2

----------------------------------------------------------------------------
(* robo: System, on the four-straight test track of track_test.go         *)
(* (1.0 m pieces, width 0.2 m, maxCofs = width / 2) with a long and a      *)
(* short vehicle.  The light update of Tick is outside the model.          *)

StraightTrack ==
    NewTrack(40000, 20000,
             <<NewRoadPiece(Meter, 0, 0), NewRoadPiece(Meter, 0, 0),
               NewRoadPiece(Meter, 0, 0), NewRoadPiece(Meter, 0, 0)>>)

\* Commands of the System specification.  With the forward speed reached in
\* one tick and these lateral speeds, every heading atan2(C, D) the simulator
\* produces has an integer Norm (3-4-5), as the Cartesian rotations need.
SysDspdCmds == {<<400, 400>>, <<0, 400>>}

SysDriveCofsCmds == {<<400, 300>>}

SysTrackCofsCmds == {<<0, -300>>, <<30000, 300>>}

\* the vehicles that are given commands; vehicle 0 stays as constructed
SysDrivers == {1}

SysPoses ==
    {[Dofs |-> 32003, Cofs |-> 0, DAngle |-> AnglePi],
     [Dofs |-> 0, Cofs |-> 0, DAngle |-> AngleHalfPi],
     [Dofs |-> 2 * Meter, Cofs |-> 0, DAngle |-> Angle0]}

InitSystem ==
    /\ trk = StraightTrack
    /\ now = 0
    /\ vehs = [v \in 0..1 |-> NewVehicle(IF v = 0 THEN "fw" ELSE "gs", CenLen(StraightTrack))]
    /\ maxDimension = NewCollisionDetector(vehs)
    /\ curCollisions = EmptyMap
    /\ newCollisions = EmptyMap
    /\ inputs = EmptyMap
    /\ op = "NewSystem"
    /\ ret = <<>>
    /\ pre = vehs
    /\ ncmd = 0

\* a faulty Tick, which refreshes the collisions before the clock and the
\* vehicles have moved
TickCollideFirst ==
    /\ now < MaxTicks * simDeltaT
    /\ inputs' = CollisionInputs(trk, vehs)
    /\ LET r == updateHelper(now, trk, maxDimension, curCollisions, newCollisions, inputs')
       IN  /\ curCollisions' = r.cur
           /\ newCollisions' = r.new
    /\ now' = now + simDeltaT
    /\ vehs' = SimTick(trk, vehs)
    /\ op' = "Tick"
    /\ pre' = vehs
    /\ UNCHANGED <<trk, maxDimension, ret, ncmd>>

\* System.Tick: the clock, the simulator, then the collision update on the
\* poses the simulator left.
Tick ==
    /\ now < MaxTicks * simDeltaT
    /\ now' = now + simDeltaT
    /\ vehs' = SimTick(trk, vehs)
    /\ inputs' = CollisionInputs(trk, vehs')
    /\ LET r == updateHelper(now', trk, maxDimension, curCollisions, newCollisions, inputs')
       IN  /\ curCollisions' = r.cur
           /\ newCollisions' = r.new
    /\ op' = "Tick"
    /\ pre' = vehs
    /\ UNCHANGED <<trk, maxDimension, ret, ncmd>>

\* a vehicle command: the vehicle v becomes w
Command(name, v, w) ==
    /\ ncmd < MaxCmds
    /\ ncmd' = ncmd + 1
    /\ vehs' = [vehs EXCEPT ![v] = w]
    /\ op' = name
    /\ UNCHANGED <<trk, now, maxDimension, curCollisions, newCollisions, inputs, ret, pre>>

DoSetCmdDriveDspd(who, cmds) ==
    \E v \in who, c \in cmds :
        Command("SetCmdDriveDspd", v, SetCmdDriveDspd(vehs[v], c[1], c[2]))

DoSetCmdDriveCofs(who, cmds) ==
    \E v \in who, c \in cmds :
        Command("SetCmdDriveCofs", v, SetCmdDriveCofs(vehs[v], c[1], c[2]))

DoSetCmdTrackCofs(who, cmds) ==
    \E v \in who, c \in cmds :
        Command("SetCmdTrackCofs", v, SetCmdTrackCofs(vehs[v], c[1], c[2]))

DoReposition(who, poses) ==
    \E v \in who, p \in poses : Command("Reposition", v, Reposition(vehs[v], p))

DoCmdUturn(who) ==
    \E v \in who : Command("CmdUturn", v, CmdUturn(vehs[v], DefUturnRadius))

\* a faulty NewCollisions, which reports the new events and keeps them
NewCollisionsKeep ==
    /\ ret' \in EventLists(newCollisions)
    /\ op' = "NewCollisions"
    /\ UNCHANGED <<trk, now, vehs, maxDimension, curCollisions, newCollisions, inputs, pre, ncmd>>

\* CollisionDetector.NewCollisions
NewCollisions ==
    /\ ret' \in EventLists(newCollisions)
    /\ newCollisions' = EmptyMap
    /\ op' = "NewCollisions"
    /\ UNCHANGED <<trk, now, vehs, maxDimension, curCollisions, inputs, pre, ncmd>>

\* CollisionDetector.CurCollisions
CurCollisions ==
    /\ ret' \in EventLists(curCollisions)
    /\ op' = "CurCollisions"
    /\ UNCHANGED <<trk, now, vehs, maxDimension, curCollisions, newCollisions, inputs, pre, ncmd>>

Next ==
    \/ Tick
    \/ DoSetCmdDriveDspd(SysDrivers, SysDspdCmds)
    \/ DoSetCmdDriveCofs(SysDrivers, SysDriveCofsCmds)
    \/ DoSetCmdTrackCofs(SysDrivers, SysTrackCofsCmds)
    \/ DoReposition(SysDrivers, SysPoses)
    \/ DoCmdUturn(SysDrivers)
    \/ NewCollisions
    \/ CurCollisions

Spec == InitSystem /\ [][Next]_vars

----------------------------------------------------------------------------
(* robo: CollisionDetector.updateHelper on its own, given inputs directly   *)
(* as collision_test.go gives them: the distance offset and the Cartesian   *)
(* pose of an input are independent values.  Vehicle 0 is the long vehicle  *)
(* at the origin with heading 0.                                            *)

\* updateHelper calls per behaviour
MaxUpdates == 3

MkInput(dofs, x, y, theta, vt) ==
    [dofs |-> dofs,
     pose |-> MkPose(Pt(x, y, 1), theta),
     len |-> vehTypeInfoTable[vt].Length,
     width |-> vehTypeInfoTable[vt].Width]

\* <<dofs, x, y, theta>> of vehicle 1
CDPlacements ==
    {<<0, 0, 0, Angle0>>,                     \* on top of vehicle 0
     <<0, 0, 0, AngleHalfPi>>,                \* across vehicle 0, the centres equal
     <<30000, 30000, 0, Angle0>>,             \* the tail over the nose of vehicle 0
     <<32000, 32000, 0, AnglePi>>,            \* the edges touch
     <<40000, 40000, 0, Angle0>>,             \* apart, within the largest dimension
     <<100000, 100000, 0, Angle0>>,           \* apart and far
     <<60000, 0, 0, Angle0>>,                 \* far along the road, same place in the plane
     <<780000, -20000, 0, AnglePi>>,          \* near across the finish line
     <<10000, 10000, 3000, Atan2(3, 4)>>,     \* turned, a corner inside
     <<0, 0, 8800, Angle0>>}                  \* side by side, the edges touch

CDInputs ==
    {[v \in 0..1 |-> IF v = 0 THEN MkInput(0, 0, 0, Angle0, "fw")
                     ELSE MkInput(pl[1], pl[2], pl[3], pl[4], "gs")] : pl \in CDPlacements}

InitCD ==
    /\ trk = StraightTrack
    /\ now = 0
    /\ vehs = [v \in 0..1 |-> NewVehicle(IF v = 0 THEN "fw" ELSE "gs", CenLen(StraightTrack))]
    /\ maxDimension = NewCollisionDetector(vehs)
    /\ curCollisions = EmptyMap
    /\ newCollisions = EmptyMap
    /\ inputs = EmptyMap
    /\ op = "NewCollisionDetector"
    /\ ret = <<>>
    /\ pre = vehs
    /\ ncmd = 0

DoUpdateHelper(ins) ==
    /\ now < MaxUpdates * simDeltaT
    /\ now' = now + simDeltaT
    /\ \E in \in ins :
        /\ inputs' = in
        /\ LET r == updateHelper(now', trk, maxDimension, curCollisions, newCollisions, in)
           IN  /\ curCollisions' = r.cur
               /\ newCollisions' = r.new
    /\ op' = "updateHelper"
    /\ UNCHANGED <<trk, vehs, maxDimension, ret, pre, ncmd>>

NextCD ==
    \/ DoUpdateHelper(CDInputs)
    \/ NewCollisions
    \/ CurCollisions

SpecCD == InitCD /\ [][NextCD]_vars

----------------------------------------------------------------------------
(* robo: IdealSimulator.Tick on a track with a curve: a short straight, a   *)
(* right curve of one radian, two straights.  At the offsets the commands   *)
(* below reach (0 and -maxCofs) the curve's radius ratio is 1 or 3, so the  *)
(* scaled increment is an integer.  No Cartesian pose is taken here.        *)

\* simulator ticks per behaviour
MaxSimTicks == 4

CurvedTrack ==
    NewTrack(40000, 0,
             <<NewRoadPiece(100, 0, 0), NewRoadPiece(30000, 30000, -1),
               NewRoadPiece(100, 0, 0), NewRoadPiece(100, 0, 0)>>)

SimDrivers == {0}

SimDspdCmds == {<<2000, 40>>, <<100, 40>>, <<0, 40>>, <<100, 0>>}

SimTrackCofsCmds == {<<-20000, 20000>>, <<0, 20000>>}

SimPoses ==
    {[Dofs |-> 30250, Cofs |-> 0, DAngle |-> Angle0],
     [Dofs |-> 150, Cofs |-> 0, DAngle |-> AnglePi]}

InitSim ==
    /\ trk = CurvedTrack
    /\ now = 0
    /\ vehs = [v \in 0..0 |-> NewVehicle("gs", CenLen(CurvedTrack))]
    /\ maxDimension = NewCollisionDetector(vehs)
    /\ curCollisions = EmptyMap
    /\ newCollisions = EmptyMap
    /\ inputs = EmptyMap
    /\ op = "NewIdealSimulator"
    /\ ret = <<>>
    /\ pre = vehs
    /\ ncmd = 0

\* IdealSimulator.Tick(dt, trk, vehs); now counts the simulated time
DoSimTick ==
    /\ now < MaxSimTicks * simDeltaT
    /\ now' = now + simDeltaT
    /\ vehs' = SimTick(trk, vehs)
    /\ op' = "SimTick"
    /\ pre' = vehs
    /\ UNCHANGED <<trk, maxDimension, curCollisions, newCollisions, inputs, ret, ncmd>>

NextSim ==
    \/ DoSimTick
    \/ DoSetCmdDriveDspd(SimDrivers, SimDspdCmds)
    \/ DoSetCmdTrackCofs(SimDrivers, SimTrackCofsCmds)
    \/ DoReposition(SimDrivers, SimPoses)
    \/ DoCmdUturn(SimDrivers)

SpecSim == InitSim /\ [][NextSim]_vars

----------------------------------------------------------------------------
(* robo: IdealSimulator.Tick called for ever by the game loop.  Commands   *)
(* arrive during the first ticks only; from then on the commanded values   *)
(* stay as they are and the simulator keeps ticking.                       *)

\* the ticks during which commands arrive
LiveCmdTicks == 2

\* the ticks that follow the last command
LiveSettleTicks == 20

\* <<speed, acceleration>>: the last one has no acceleration
LiveDspdCmds == {<<100, 40>>, <<100, 6>>, <<0, 6>>, <<60, 0>>}

\* <<offset, lateral speed>>: the first offset is beyond MaxCofs, the last
\* command has no lateral speed
LiveTrackCofsCmds == {<<30000, 3000>>, <<-8000, -7000>>, <<-8000, 0>>}

InitLive ==
    /\ trk = StraightTrack
    /\ now = 0
    /\ vehs = [v \in 0..0 |-> NewVehicle("gs", CenLen(StraightTrack))]
    /\ maxDimension = NewCollisionDetector(vehs)
    /\ curCollisions = EmptyMap
    /\ newCollisions = EmptyMap
    /\ inputs = EmptyMap
    /\ op = "NewIdealSimulator"
    /\ ret = <<>>
    /\ pre = vehs
    /\ ncmd = 0

DoLiveTick ==
    /\ now < (LiveCmdTicks + LiveSettleTicks) * simDeltaT
    /\ now' = now + simDeltaT
    /\ vehs' = SimTick(trk, vehs)
    /\ op' = "SimTick"
    /\ pre' = vehs
    /\ UNCHANGED <<trk, maxDimension, curCollisions, newCollisions, inputs, ret, ncmd>>

DoLiveSetCmdDriveDspd ==
    /\ now < LiveCmdTicks * simDeltaT
    /\ DoSetCmdDriveDspd({0}, LiveDspdCmds)

DoLiveSetCmdTrackCofs ==
    /\ now < LiveCmdTicks * simDeltaT
    /\ DoSetCmdTrackCofs({0}, LiveTrackCofsCmds)

NextLive ==
    \/ DoLiveTick
    \/ DoLiveSetCmdDriveDspd
    \/ DoLiveSetCmdTrackCofs

\* the game loop does not stop ticking
SpecLive == InitLive /\ [][NextLive]_vars /\ WF_vars(DoLiveTick)

----------------------------------------------------------------------------
(* track: the distance functions of Track, each applied once to a pose and  *)
(* a target drawn at the start: on the four-straight track, and on a track  *)
(* with a right curve of one radian and three straights.  The offsets in   *)
(* the curve are multiples of 3, so that the lengths at the lateral offsets *)
(* -0.1 m and 0.05 m (a third and four thirds of the centre) are integers.  *)

\* NormalizeDofs is given offsets up to this many track lengths off
MaxLaps == 2

LoopTrack ==
    NewTrack(40000, 0,
             <<NewRoadPiece(300, 0, 0), NewRoadPiece(30000, 30000, -1),
               NewRoadPiece(150, 0, 0), NewRoadPiece(150, 0, 0)>>)

TrkTracks == {StraightTrack, LoopTrack}

TrkDofs(t) ==
    IF t = StraightTrack
    THEN {0, 1, 100000, 200000, 250000, 400000, 400001, 600000, 799999}
    ELSE {0, 150, 300, 303, 3300, 15300, 15303, 30297, 30300, 30450, 30599}

TrkCofs == {0, -20000, 10000}

TrkFacings == {Angle0, AnglePi, Atan2(3, 4), Atan2(3, -4)}

TrkInputs(t) ==
    {[p |-> [Dofs |-> d, Cofs |-> c, DAngle |-> h], dofs |-> target, d |-> target, cofs |-> 0,
      tr |-> NewRegion([Dofs |-> 0, Cofs |-> 0], 1, 1)] :
        d \in TrkDofs(t), c \in TrkCofs, h \in TrkFacings, target \in TrkDofs(t)}

InitTrk ==
    /\ trk \in TrkTracks
    /\ inputs \in TrkInputs(trk)
    /\ now = 0
    /\ vehs = EmptyMap
    /\ maxDimension = EmptyMap
    /\ curCollisions = EmptyMap
    /\ newCollisions = EmptyMap
    /\ op = "NewTrack"
    /\ ret = <<>>
    /\ pre = EmptyMap
    /\ ncmd = 0

\* one call of a Track function on the inputs drawn; ret holds its result
TrkCall(name, args, result) ==
    /\ op = "NewTrack"
    /\ op' = name
    /\ inputs' = args
    /\ ret' = <<result>>
    /\ UNCHANGED <<trk, now, vehs, maxDimension, curCollisions, newCollisions, pre, ncmd>>

DoNormalizeDofs ==
    \E k \in -MaxLaps..MaxLaps :
        LET d == inputs.dofs + k * CenLen(trk)
        IN  TrkCall("NormalizeDofs", [inputs EXCEPT !.d = d], NormalizeDofs(trk, d))

DoDofsDist == TrkCall("DofsDist", inputs, DofsDist(trk, inputs.p.Dofs, inputs.dofs))

DoDriveDofsDist == TrkCall("DriveDofsDist", inputs, DriveDofsDist(trk, inputs.p, inputs.dofs))

DoDriveDist == TrkCall("DriveDist", inputs, DriveDist(trk, inputs.p, inputs.dofs))

DoDriveDeltaDist == TrkCall("DriveDeltaDist", inputs, DriveDeltaDist(trk, inputs.p, inputs.dofs))

DoDriveDeltaDofs == TrkCall("DriveDeltaDofs", inputs, DriveDeltaDofs(trk, inputs.p, inputs.dofs))

DoDriveDeltaCofs ==
    \E c \in TrkCofs :
        TrkCall("DriveDeltaCofs", [inputs EXCEPT !.cofs = c], DriveDeltaCofs(trk, inputs.p, c))

\* RpiAndRpDofs of a valid offset, of the track length, and of the offsets
\* next to the valid range
DoRpiAndRpDofs ==
    \E d \in {inputs.dofs, CenLen(trk), -1, CenLen(trk) + 1} :
        TrkCall("RpiAndRpDofs", [inputs EXCEPT !.d = d], RpiAndRpDofs(trk, d))

\* the lengths of the regions tried from the start corner c1: short, up to
\* the target, up to the finish line, and one to two track lengths
RegionLens(t, c1, target) ==
    {1, CenLen(t) \div 2, CenLen(t) - c1, CenLen(t), CenLen(t) + CenLen(t) \div 2, 2 * CenLen(t)}
        \cup {len \in {target - c1} : len > 0}

RegionCofs == {-20000, 0}

RegionWidths == {10000, 20000}

\* ContainsPoint, of a region that starts at the pose's Dofs, for the point
\* at the target offset, or one lap further, on the pose's Cofs
DoContainsPoint ==
    \E len \in RegionLens(trk, inputs.p.Dofs, inputs.dofs), c \in RegionCofs,
       w \in RegionWidths, k \in {0, 1} :
        LET tr == NewRegion([Dofs |-> inputs.p.Dofs, Cofs |-> c], len, w)
            pt == [inputs.p EXCEPT !.Dofs = inputs.dofs + k * CenLen(trk)]
        IN  TrkCall("ContainsPoint", [inputs EXCEPT !.p = pt, !.tr = tr],
                    ContainsPoint(trk, tr, pt))

NextTrk ==
    \/ DoNormalizeDofs
    \/ DoDofsDist
    \/ DoDriveDofsDist
    \/ DoDriveDist
    \/ DoDriveDeltaDist
    \/ DoDriveDeltaDofs
    \/ DoDriveDeltaCofs
    \/ DoRpiAndRpDofs
    \/ DoContainsPoint

SpecTrk == InitTrk /\ [][NextTrk]_vars

-----------------------------------------------------------------------------
(* track: NormalizeDofs, one loop iteration at a time, on float64 offsets.  *)
(* phys.Meters is a float64: sums are rounded to 53 significant bits.  An   *)
(* offset is held as [big, n]: big = 0 is the offset n, which the float64   *)
(* holds exactly, as it does the sums the loops make of it; big = 1 or -1   *)
(* is one float64 of that sign whose magnitude is above 2^54 track lengths  *)
(* (1e300 m is one), with n = 0.  The float64 values next to such an offset *)
(* are more than two track lengths away, so the rounded sum of it and a     *)
(* track length is the offset itself.                                       *)

Flt(big, n) == [big |-> big, n |-> n]

FltRound(x) == IF x.big = 0 THEN x ELSE Flt(x.big, 0)

FltAdd(x, n) == FltRound(Flt(x.big, x.n + n))

FltLess(x, n) == x.big < 0 \/ (x.big = 0 /\ x.n < n)

NormInputs(t) ==
    {Flt(0, x + k * CenLen(t)) : x \in TrkDofs(t), k \in -MaxLaps .. MaxLaps}
        \cup {Flt(1, 0), Flt(-1, 0)}

InitNorm ==
    /\ trk \in TrkTracks
    /\ \E d \in NormInputs(trk) : inputs = [d |-> d, dofs |-> d]
    /\ now = 0
    /\ vehs = EmptyMap
    /\ maxDimension = EmptyMap
    /\ curCollisions = EmptyMap
    /\ newCollisions = EmptyMap
    /\ op = "NewTrack"
    /\ ret = <<>>
    /\ pre = EmptyMap
    /\ ncmd = 0

NormFrame == UNCHANGED <<trk, now, vehs, maxDimension, curCollisions, newCollisions, pre, ncmd>>

\* for ; dofs < 0; dofs += t.CenLen() {}
NormalizeUpStep ==
    /\ op \in {"NewTrack", "NormalizeUp"}
    /\ FltLess(inputs.dofs, 0)
    /\ inputs' = [inputs EXCEPT !.dofs = FltAdd(inputs.dofs, CenLen(trk))]
    /\ op' = "NormalizeUp"
    /\ ret' = ret
    /\ NormFrame

\* for ; dofs >= t.CenLen(); dofs -= t.CenLen() {}
NormalizeDownStep ==
    /\ op \in {"NewTrack", "NormalizeUp", "NormalizeDown"}
    /\ op = "NormalizeDown" \/ ~FltLess(inputs.dofs, 0)
    /\ ~FltLess(inputs.dofs, CenLen(trk))
    /\ inputs' = [inputs EXCEPT !.dofs = FltAdd(inputs.dofs, -CenLen(trk))]
    /\ op' = "NormalizeDown"
    /\ ret' = ret
    /\ NormFrame

\* return dofs
NormalizeReturn ==
    /\ op \in {"NewTrack", "NormalizeUp", "NormalizeDown"}
    /\ op = "NormalizeDown" \/ ~FltLess(inputs.dofs, 0)
    /\ FltLess(inputs.dofs, CenLen(trk))
    /\ op' = "NormalizeDofs"
    /\ ret' = <<inputs.dofs.n>>
    /\ inputs' = inputs
    /\ NormFrame

NextNorm ==
    \/ NormalizeUpStep
    \/ NormalizeDownStep
    \/ NormalizeReturn

\* A call that has started goes on running.  An iteration that leaves dofs
\* as it was changes no variable: a call caught in such a loop is a
\* behaviour that stutters for ever without reaching the return.
SpecNorm == InitNorm /\ [][NextNorm]_vars /\ WF_vars(NextNorm)

-----------------------------------------------------------------------------
(* track: NewTrack on piece lists made of the modular pieces: straights and *)
(* curves of 90 degrees with the radius of half a straight.                 *)

TrackLenModStartLong == 68000

TrackLenModStartShort == 44000

TrackLenModStraight == 112000

\* pi / 2 * (TrackLenModStraight / 2), to the length unit
TrackLenModCurve == 87965

ModPiece(tc) ==
    IF tc = "S" THEN NewRoadPiece(TrackLenModStraight, 0, 0)
    ELSE NewRoadPiece(TrackLenModCurve, TrackLenModStraight \div 2, IF tc = "L" THEN 1 ELSE -1)

\* NewModularTrack's piece list: the first straight is the short start piece,
\* and the long start piece is put at the end
ModularPieces(topo) ==
    [i \in 1 .. Len(topo) + 1 |->
        IF i = 1 THEN NewRoadPiece(TrackLenModStartShort, 0, 0)
        ELSE IF i = Len(topo) + 1 THEN NewRoadPiece(TrackLenModStartLong, 0, 0)
        ELSE ModPiece(topo[i])]

NewTrackPieces ==
    {ModularPieces(<<"S", "L", "L", "S", "S", "L", "L", "S">>),
     ModularPieces(<<"S", "R", "R", "S", "S", "R", "R", "S">>),
     ModularPieces(<<"S", "L", "L", "S", "S", "L", "R", "S">>),
     ModularPieces(<<"S", "L", "L", "S", "S", "S", "L", "L", "S">>),
     ModularPieces(<<"S", "L", "S", "R", "R", "R", "S", "S", "L", "L">>),
     ModularPieces(<<"S", "L">>),
     <<ModPiece("L"), ModPiece("L"), ModPiece("L"), ModPiece("L")>>,
     <<ModPiece("L"), ModPiece("L"), ModPiece("L")>>,
     <<ModPiece("S"), ModPiece("S"), ModPiece("S"), ModPiece("S")>>,
     <<>>}

NewTrackWidths == {40000, 0, -40000}

NewTrackMaxCofs == {0, 20000, -1}

\* the track variable before NewTrack has returned one
NoTrack == NewTrack(0, 0, <<>>)

InitNew ==
    /\ trk = NoTrack
    /\ inputs \in [width : NewTrackWidths, maxCofs : NewTrackMaxCofs, pieces : NewTrackPieces]
    /\ now = 0
    /\ vehs = EmptyMap
    /\ maxDimension = EmptyMap
    /\ curCollisions = EmptyMap
    /\ newCollisions = EmptyMap
    /\ op = "init"
    /\ ret = <<>>
    /\ pre = EmptyMap
    /\ ncmd = 0

\* NewTrack: nil and an error for a short list, a bad width or a bad maxCofs;
\* otherwise the track, with an error if it is not a loop
DoNewTrack ==
    /\ op = "init"
    /\ op' = "NewTrack"
    /\ LET err == NewTrackError(inputs.width, inputs.maxCofs, inputs.pieces)
       IN  /\ ret' = <<err>>
           /\ trk' = IF err \in {"nil", "not a loop"}
                     THEN NewTrack(inputs.width, inputs.maxCofs, inputs.pieces)
                     ELSE NoTrack
    /\ UNCHANGED <<now, vehs, maxDimension, curCollisions, newCollisions, inputs, pre, ncmd>>

NextNew == DoNewTrack

SpecNew == InitNew /\ [][NextNew]_vars

----------------------------------------------------------------------------
(* robo: calcPointOfImpact in float64.  Poses are advanced and related      *)
(* through polar points (a square root and an arc tangent, then a cosine   *)
(* and a sine), so the coordinates the corner test compares carry a        *)
(* rounding error of a few units in the last place.  A corner that lies    *)
(* strictly inside or strictly outside the reference rectangle is on the   *)
(* same side after rounding; a corner that lies exactly on an edge lands   *)
(* on either side, depending on the poses.  The point of impact itself is  *)
(* kept exactly: its rounding error is below any tolerance of interest.    *)

\* whether cp lies in the interior of the rectangle of the reference vehicle
CornerStrictlyInside(cp, rv) ==
    LET rvHalfLen == ExactDiv(rv.len, 2)
        rvHalfWid == ExactDiv(rv.width, 2)
    IN  \E rel \in {PosePoint(RelativeTo(MkPose(cp, Angle0), rv.pose))} :
            /\ rel.X < rvHalfLen * rel.D
            /\ rel.X > -rvHalfLen * rel.D
            /\ rel.Y < rvHalfWid * rel.D
            /\ rel.Y > -rvHalfWid * rel.D

\* the eight corner tests in the order of the loops: the corners of vehicle 1
\* against vehicle 0, then the corners of vehicle 0 against vehicle 1
CornerTests(in2) ==
    [i \in 1..8 |-> IF i <= 4 THEN [cp |-> CornersAbs(in2[2])[i], rv |-> in2[1]]
                    ELSE [cp |-> CornersAbs(in2[1])[i - 4], rv |-> in2[2]]]

\* the result for the corner tests, given as indices, that came out inside
PointOfImpact(tests, inside) ==
    LET collisionPoints == [i \in 1..Len(SelectSeq(<<1, 2, 3, 4, 5, 6, 7, 8>>, LAMBDA k : k \in inside)) |->
                                tests[SelectSeq(<<1, 2, 3, 4, 5, 6, 7, 8>>, LAMBDA k : k \in inside)[i]].cp]
    IN  IF inside = {}
        THEN [isCollision |-> FALSE, poi |-> Pt(0, 0, 1)]
        ELSE The({[isCollision |-> TRUE,
                   poi |-> Pt(sum.X, sum.Y, sum.D * Cardinality(inside))] :
                       sum \in {PtSum(collisionPoints)}})

\* the sets of corner tests that float64 may report as inside
RoundedInside(tests) ==
    LET sure == {i \in 1..8 : CornerStrictlyInside(tests[i].cp, tests[i].rv)}
        edge == {i \in 1..8 : CornerInside(tests[i].cp, tests[i].rv)} \ sure
    IN  {sure \cup e : e \in SUBSET edge}

\* two vehicles of the same type and heading, vehicle 1 displaced by d along
\* the length axis of vehicle 0
NoseToTail(x, y, theta, d, vt) ==
    The({[v \in 0..1 |->
            [dofs |-> 0,
             pose |-> IF v = 0 THEN p0 ELSE AdvancePose(p0, MkPose(Pt(d, 0, 1), Angle0)),
             len |-> vehTypeInfoTable[vt].Length,
             width |-> vehTypeInfoTable[vt].Width]] : p0 \in {MkPose(Pt(x, y, 1), theta)}})

PoiHeadings == {Angle0, AngleHalfPi, AnglePi, Atan2(3, 4)}

\* <<x, y>> of vehicle 0
PoiOrigins == {<<0, 0>>, <<-200000, 74000>>}

\* the distance of the centres: an overlap of 0.02 m, a gap of 0.02 m
PoiDistances == {12000, 20000}

PoiInputs ==
    {NoseToTail(o[1], o[2], h, d, "gs") : o \in PoiOrigins, h \in PoiHeadings, d \in PoiDistances}
    \cup {[v \in 0..1 |-> IF v = 0 THEN MkInput(0, 0, 0, Angle0, "fw")
                          ELSE MkInput(0, 10000, 3000, Atan2(3, 4), "gs")]}

\* a pair of inputs with the heading of vehicle v turned by half a turn
HalfTurned(in2, v) == [in2 EXCEPT ![v].pose.Theta = AddAngle(@, AnglePi)]

\* a pair of inputs with both poses moved by <<dx, dy>>
Translated(in2, dx, dy) ==
    [v \in 0..1 |-> [in2[v] EXCEPT !.pose.P = PtAdd(@, Pt(dx, dy, 1))]]

PoiTranslations == {<<6000, -2000>>}

InitPoi ==
    /\ trk = StraightTrack
    /\ now = 0
    /\ vehs = EmptyMap
    /\ maxDimension = EmptyMap
    /\ curCollisions = EmptyMap
    /\ newCollisions = EmptyMap
    /\ inputs \in PoiInputs
    /\ op = "init"
    /\ ret = <<>>
    /\ pre = inputs
    /\ ncmd = 0

PoiFrame == UNCHANGED <<trk, now, vehs, maxDimension, curCollisions, newCollisions, ncmd>>

\* calcPointOfImpact(inputs[0], inputs[1]) on the pair in
PoiCall(in) ==
    /\ inputs' = in
    /\ \E inside \in RoundedInside(CornerTests(<<in[0], in[1]>>)) :
          ret' = Append(ret, PointOfImpact(CornerTests(<<in[0], in[1]>>), inside))
    /\ op' = "calcPointOfImpact"
    /\ PoiFrame

DoCalcPointOfImpact ==
    /\ ret = <<>>
    /\ pre' = pre
    /\ PoiCall(inputs)

\* a second call, the heading of one vehicle turned by half a turn
DoCalcHalfTurned ==
    /\ Len(ret) = 1
    /\ pre' = inputs
    /\ \E v \in 0..1 : PoiCall(HalfTurned(inputs, v))

\* a second call, both vehicles moved by the same vector
DoCalcTranslated ==
    /\ Len(ret) = 1
    /\ pre' = inputs
    /\ \E t \in PoiTranslations : PoiCall(Translated(inputs, t[1], t[2]))

NextPoi ==
    \/ DoCalcPointOfImpact
    \/ DoCalcHalfTurned
    \/ DoCalcTranslated

SpecPoi == InitPoi /\ [][NextPoi]_vars

----------------------------------------------------------------------------
(* Rectangles in the plane.  Two oriented rectangles share a point exactly *)
(* when no edge direction of either separates their corners (touching      *)
(* rectangles share a point).                                              *)

Min(a, b) == IF a <= b THEN a ELSE b

Clamp(x, lo, hi) == IF x < lo THEN lo ELSE IF x > hi THEN hi ELSE x

SeqRange(sq) == {sq[i] : i \in DOMAIN sq}

\* the component of the point p along the direction a, as a fraction n / d
PtDot(p, a) == [n |-> p.X * a.c + p.Y * a.s, d |-> p.D]

RatLeq(r1, r2) == r1.n * r2.d <= r2.n * r1.d

PerpAngle(h) == [c |-> -h.s, s |-> h.c]

OverlapOnAxis(ca, cb, a) ==
    /\ \E p \in ca, q \in cb : RatLeq(PtDot(p, a), PtDot(q, a))
    /\ \E p \in ca, q \in cb : RatLeq(PtDot(q, a), PtDot(p, a))

RectanglesIntersect(inA, inB) ==
    \E ca \in {SeqRange(CornersAbs(inA))}, cb \in {SeqRange(CornersAbs(inB))} :
        \A a \in {inA.pose.Theta, PerpAngle(inA.pose.Theta),
                  inB.pose.Theta, PerpAngle(inB.pose.Theta)} :
            OverlapOnAxis(ca, cb, a)

\* the pairs of the vehicles in play
Pairs == VehPairs(Cardinality(DOMAIN vehs))

\* the rectangles of a pair at the last collision update / at the next one
OverlapNow(pair) ==
    inputs # EmptyMap /\ RectanglesIntersect(inputs[pair[1]], inputs[pair[2]])

OverlapNext(pair) == RectanglesIntersect(inputs'[pair[1]], inputs'[pair[2]])

----------------------------------------------------------------------------
(* Properties *)

\* C1: over the ticks of a System, while the rectangles of a pair overlap on
\* consecutive ticks the pair's event in CurCollisions keeps its ImpactTime;
\* on a tick where they do not overlap the pair is not in CurCollisions; on
\* a tick where they overlap and did not on the tick before, the pair has an
\* event whose ImpactTime is the time of that tick (later than any before).
C1_EventLifecycle ==
    [][op' = "Tick" =>
        \A pair \in Pairs :
            /\ (OverlapNow(pair) /\ OverlapNext(pair)) =>
                   /\ pair \in DOMAIN curCollisions
                   /\ pair \in DOMAIN curCollisions'
                   /\ curCollisions'[pair].ImpactTime = curCollisions[pair].ImpactTime
            /\ ~ OverlapNext(pair) => pair \notin DOMAIN curCollisions'
            /\ (~ OverlapNow(pair) /\ OverlapNext(pair)) =>
                   /\ pair \in DOMAIN curCollisions'
                   /\ curCollisions'[pair].ImpactTime = now'
                   /\ now' > now]_vars

\* C2: NewCollisions returns every event of the new-set and empties it, so a
\* NewCollisions right after another returns the empty list, and it leaves
\* the current-set alone; CurCollisions returns the events of the current-set
\* and changes neither set.
C2_QueriesFrame ==
    [][/\ op' = "NewCollisions" =>
            /\ SeqRange(ret') = SeqRange(newCollisions)
            /\ Len(ret') = Cardinality(DOMAIN newCollisions)
            /\ newCollisions' = EmptyMap
            /\ curCollisions' = curCollisions
            /\ (op = "NewCollisions" => ret' = <<>>)
       /\ op' = "CurCollisions" =>
            /\ SeqRange(ret') = SeqRange(curCollisions)
            /\ curCollisions' = curCollisions
            /\ newCollisions' = newCollisions]_vars

\* C2, the case: NewCollisions has just returned an event, the new-set is
\* empty and the current-set still holds the event.
C2_Drained ==
    /\ op = "NewCollisions"
    /\ ret # <<>>
    /\ newCollisions = EmptyMap
    /\ SeqRange(ret) = SeqRange(curCollisions)

\* C3: after a collision update in which DofsDist of a pair's distance
\* offsets exceeds the largest of the two vehicles' lengths and widths, the
\* pair is not in CurCollisions and the update has created no event for it,
\* whatever the Cartesian poses are.
C3_PrunedPairAbsent ==
    [][op' = "updateHelper" =>
        \A pair \in Pairs :
            LET a == inputs'[pair[1]]
                b == inputs'[pair[2]]
            IN  DofsDist(trk, a.dofs, b.dofs) > Max(Max(a.len, a.width), Max(b.len, b.width)) =>
                    /\ pair \notin DOMAIN curCollisions'
                    /\ pair \in DOMAIN newCollisions' =>
                           /\ pair \in DOMAIN newCollisions
                           /\ newCollisions'[pair] = newCollisions[pair]]_vars

\* C3, the case: an update has found a pair far apart along the road whose
\* rectangles overlap in the plane; the pair's event of an earlier update is
\* gone from the current-set and the new-set holds only that earlier event.
C3_PrunedWhileOverlapping ==
    /\ op = "updateHelper"
    /\ DofsDist(trk, inputs[0].dofs, inputs[1].dofs) > 48000
    /\ RectanglesIntersect(inputs[0], inputs[1])
    /\ <<0, 1>> \notin DOMAIN curCollisions
    /\ <<0, 1>> \in DOMAIN newCollisions
    /\ newCollisions[<<0, 1>>].ImpactTime < now

\* C4: for a pair that passes the broad-phase prune, calcPointOfImpact
\* reports a collision if and only if the two rectangles intersect, and the
\* pair has an event after the update exactly when they intersect.
C4_CollisionIffIntersect ==
    inputs # EmptyMap =>
        \A pair \in Pairs :
            ~ IsPruned(trk, maxDimension, inputs, pair) =>
                /\ calcPointOfImpact(<<inputs[pair[1]], inputs[pair[2]]>>).isCollision
                       <=> RectanglesIntersect(inputs[pair[1]], inputs[pair[2]])
                /\ pair \in DOMAIN curCollisions
                       <=> RectanglesIntersect(inputs[pair[1]], inputs[pair[2]])

\* C6: a Tick adds exactly simDeltaT to the clock, nothing else moves the
\* clock, so that after n ticks now = n * simDeltaT; the collision update of
\* the Tick reads the poses the vehicles have after the Tick's move, and an
\* event the Tick creates carries the clock's value after the Tick.
C6_TickOrder ==
    /\ now = 0
    /\ [][/\ op' # "Tick" => now' = now
          /\ op' = "Tick" =>
                /\ now' = now + simDeltaT
                /\ inputs' = CollisionInputs(trk, vehs')
                /\ \A pair \in Pairs :
                    /\ pair \in DOMAIN curCollisions' <=>
                           /\ ~ IsPruned(trk, maxDimension, CollisionInputs(trk, vehs'), pair)
                           /\ calcPointOfImpact(<<CollisionInputs(trk, vehs')[pair[1]],
                                                  CollisionInputs(trk, vehs')[pair[2]]>>).isCollision
                    /\ (pair \in DOMAIN curCollisions' /\ pair \notin DOMAIN curCollisions) =>
                           /\ curCollisions'[pair].ImpactTime = now'
                           /\ pair \in DOMAIN newCollisions'
                           /\ newCollisions'[pair] = curCollisions'[pair]]_vars

\* C6, the case: the second Tick has created an event, stamped with the
\* clock after that Tick, for vehicles that were apart before the Tick's move.
C6_EventOnMovedPoses ==
    /\ op = "Tick"
    /\ now = 2 * simDeltaT
    /\ <<0, 1>> \in DOMAIN newCollisions
    /\ newCollisions[<<0, 1>>].ImpactTime = now
    /\ ~ calcPointOfImpact(<<CollisionInputs(trk, pre)[0], CollisionInputs(trk, pre)[1]>>).isCollision

\* C7: in one simulator tick with commanded acceleration a >= 0 the forward
\* speed s becomes the commanded speed if |s - cmd| <= a * dt, else s + a * dt
\* if s < cmd and s - a * dt if s > cmd; it does not pass the commanded speed
\* and |s - cmd| does not grow.
C7_SpeedRamp ==
    [][op' = "SimTick" =>
        \A v \in DOMAIN vehs :
            LET s == vehs[v].desDspd
                cmd == vehs[v].cmdDspd
                a == vehs[v].cmdDacl
                s2 == vehs'[v].desDspd
            IN  a >= 0 =>
                    /\ s2 = IF Abs(s - cmd) <= a * fdt THEN cmd
                            ELSE IF s < cmd THEN s + a * fdt ELSE s - a * fdt
                    /\ (s <= cmd => s2 <= cmd)
                    /\ (s >= cmd => s2 >= cmd)
                    /\ Abs(s2 - cmd) <= Abs(s - cmd)
                    /\ Abs(vehs'[v].curVel.D) = s2]_vars

\* C7, the case: a tick has taken the speed from 80 to the commanded 100,
\* less than the step a * dt = 40 away.
C7_RampLands ==
    /\ op = "SimTick"
    /\ pre[0].desDspd = 80
    /\ pre[0].cmdDspd = 100
    /\ pre[0].cmdDacl = 40
    /\ vehs[0].desDspd = 100

\* C8: for a vehicle at rest on a straight piece at road centre, facing
\* trackwise, commanded to 1.0 m/s (2000 per tick) with acceleration 2.0 m/s^2
\* (40 per tick^2), one tick of 0.01 s leaves the forward speed at 0.02 m/s
\* (40) and increases the distance offset by 0.0001 m (20).
C8_FirstTick ==
    [][op' = "SimTick" =>
        \A v \in DOMAIN vehs :
            (/\ vehs[v].desDspd = 0
             /\ vehs[v].curVel = [D |-> 0, C |-> 0]
             /\ IsStraight(Rp(trk, RpiAndRpDofs(trk, vehs[v].curPose.Dofs).rpi))
             /\ vehs[v].curPose.Cofs = 0
             /\ vehs[v].cmdCofs = 0
             /\ vehs[v].curPose.DAngle = Angle0
             /\ vehs[v].cmdDspd = 2000
             /\ vehs[v].cmdDacl = 40)
            => /\ vehs'[v].desDspd = 40
               /\ vehs'[v].curPose.Dofs = vehs[v].curPose.Dofs + 20]_vars

\* C9: in one Tick the commanded lateral offset is first clamped into
\* [-maxCofs, maxCofs]; the lateral offset then moves toward the clamped value
\* by min(|commanded lateral speed| * dt, remaining distance), so it does not
\* pass it; after the Tick |cmdCofs| <= maxCofs.
C9_LateralStep ==
    [][op' = "Tick" =>
        \A v \in DOMAIN vehs :
            LET target == Clamp(vehs[v].cmdCofs, -MaxCofs(trk), MaxCofs(trk))
                old == vehs[v].curPose.Cofs
                new == vehs'[v].curPose.Cofs
                remaining == Abs(target - old)
                step == Min(Abs(vehs[v].cmdCspd) * fdt, remaining)
            IN  /\ vehs'[v].cmdCofs = target
                /\ Abs(vehs'[v].cmdCofs) <= MaxCofs(trk)
                /\ Abs(new - old) = step
                /\ Abs(target - new) = remaining - step]_vars

\* C9, the case: a Tick has taken the last, shorter step onto the commanded
\* offset: 100 where the lateral speed allows 300.
C9_ShortLastStep ==
    /\ op = "Tick"
    /\ \E v \in DOMAIN vehs :
        /\ Abs(vehs[v].cmdCspd) * fdt = 300
        /\ Abs(vehs[v].curPose.Cofs - pre[v].curPose.Cofs) = 100
        /\ vehs[v].curPose.Cofs = vehs[v].cmdCofs

\* C10: after a simulator tick each vehicle's distance offset is in
\* [0, trackLength), and differs from its value before the tick by the tick's
\* distance increment, scaled by CurveRadius(0) / CurveRadius(cofs) in a
\* curve, added modulo trackLength if the vehicle faced trackwise when the
\* tick began and subtracted if it faced counter-trackwise.
C10_DofsStep ==
    [][op' = "SimTick" =>
        \A v \in DOMAIN vehs :
            LET L == CenLen(trk)
                old == vehs[v].curPose.Dofs
                new == vehs'[v].curPose.Dofs
                rp == Rp(trk, RpiAndRpDofs(trk, old).rpi)
                twiceFwd == 2 * vehs'[v].desDspd * fdt + vehs[v].cmdDacl * fdt * fdt
                dir == IF IsFacingTrackwise(vehs[v]) THEN 1 ELSE -1
            IN  /\ 0 <= new
                /\ new < L
                /\ \E k \in {-1, 0, 1} :
                       IF IsStraight(rp)
                       THEN 2 * (new - old + k * L) = dir * twiceFwd
                       ELSE 2 * (new - old + k * L) * RpCurveRadius(rp, vehs[v].curPose.Cofs)
                                = dir * twiceFwd * RpCurveRadius(rp, 0)]_vars

\* C10, the case: a vehicle facing counter-trackwise in the curve, off the
\* road centre, has been moved back by three times its forward increment.
C10_BackwardsInCurve ==
    /\ op = "SimTick"
    /\ ~ IsFacingTrackwise(pre[0])
    /\ ~ IsStraight(Rp(trk, RpiAndRpDofs(trk, pre[0].curPose.Dofs).rpi))
    /\ pre[0].curPose.Cofs = -20000
    /\ vehs[0].desDspd > 0
    /\ 2 * (pre[0].curPose.Dofs - vehs[0].curPose.Dofs)
           = 3 * (2 * vehs[0].desDspd * fdt + pre[0].cmdDacl * fdt * fdt)

\* C11: over Tick, SetCmdDriveDspd, SetCmdDriveCofs, SetCmdTrackCofs,
\* Reposition and CmdUturn a vehicle's odometer never decreases (what it had
\* stays in it), and a step that is not a Tick leaves it as it was.
C11_OdometerMonotone ==
    [][\A v \in DOMAIN vehs :
          /\ vehs[v].odom \sqsubseteq vehs'[v].odom
          /\ op' # "Tick" => vehs'[v].odom = vehs[v].odom]_vars

\* C11, the case: a vehicle that has driven has been turned round by
\* CmdUturn and still has its odometer.
C11_DrivenThenTurned ==
    /\ op = "CmdUturn"
    /\ vehs[1].desDspd > 0
    /\ vehs[1].odom # EmptyBag
    /\ vehs[1].odom = SimTickVeh(trk, pre[1]).odom

\* C12: Reposition(p) sets the current track pose to p and the commanded and
\* the in-progress lateral offset to p.Cofs, and leaves every other field of
\* the vehicle (commanded speed and acceleration, current speed, commanded
\* lateral speed, odometer) as it was; a tick right after it makes no
\* lateral move when |p.Cofs| <= maxCofs.
C12_RepositionFrame ==
    [][/\ op' = "Reposition" =>
            \E v \in DOMAIN vehs :
                /\ vehs'[v].curPose \in SimPoses
                /\ vehs' = [vehs EXCEPT ![v] =
                              [vehs[v] EXCEPT !.curPose = vehs'[v].curPose,
                                              !.cmdCofs = vehs'[v].curPose.Cofs,
                                              !.desCofs = vehs'[v].curPose.Cofs]]
       /\ (op = "Reposition" /\ op' = "SimTick") =>
            \A v \in DOMAIN vehs :
                Abs(vehs[v].curPose.Cofs) <= MaxCofs(trk) =>
                    /\ vehs'[v].curPose.Cofs = vehs[v].curPose.Cofs
                    /\ vehs'[v].curVel.C = 0]_vars

\* C12, the case: a vehicle that was commanded to the offset -0.1 m, and has
\* driven, has been repositioned to road centre: the command is gone.
C12_CommandReset ==
    /\ op = "Reposition"
    /\ pre[0].cmdCofs = -20000
    /\ vehs[0].odom # EmptyBag
    /\ vehs[0].curPose \in SimPoses
    /\ vehs[0].cmdCofs = 0
    /\ vehs[0].desCofs = 0

\* C13 as stated: CmdUturn reverses the facing and mirrors the lateral
\* offset about road centre, Cofs becoming -Cofs.
C13_UturnMirrors ==
    [][op' = "CmdUturn" =>
        \E v \in DOMAIN vehs :
            /\ IsFacingTrackwise(vehs'[v]) # IsFacingTrackwise(vehs[v])
            /\ vehs'[v].curPose.Cofs = -vehs[v].curPose.Cofs]_vars

\* C13, amended: CmdUturn(radius) reverses the facing (the heading becomes pi
\* for a vehicle facing trackwise, 0 otherwise) and moves the lateral offset
\* by twice the radius toward road centre: Cofs - 2 * radius when Cofs >= 0,
\* Cofs + 2 * radius when Cofs < 0; Dofs stays, and the commanded and the
\* in-progress lateral offset become the new Cofs.
C13_UturnShifts ==
    [][op' = "CmdUturn" =>
        \E v \in DOMAIN vehs :
            LET old == vehs[v].curPose
                cofs == IF old.Cofs < 0 THEN old.Cofs + 2 * DefUturnRadius
                        ELSE old.Cofs - 2 * DefUturnRadius
                dangle == IF IsFacingTrackwise(vehs[v]) THEN AnglePi ELSE Angle0
            IN  /\ IsFacingTrackwise(vehs'[v]) # IsFacingTrackwise(vehs[v])
                /\ vehs' = [vehs EXCEPT ![v] =
                              [vehs[v] EXCEPT !.curPose = [Dofs |-> old.Dofs, Cofs |-> cofs,
                                                           DAngle |-> dangle],
                                              !.cmdCofs = cofs,
                                              !.desCofs = cofs]]]_vars

\* C13, the case: a new vehicle, at road centre facing trackwise, has been
\* turned: it faces counter-trackwise at Cofs = -0.1 m.
C13_TurnedFromCentre ==
    /\ op = "CmdUturn"
    /\ now = 0
    /\ vehs[0].curPose = [Dofs |-> 0, Cofs |-> -20000, DAngle |-> AnglePi]

\* C14, for an offset x + k * L with x in [0, L) and k up to MaxLaps either
\* way: NormalizeDofs returns x, the one value of [0, L) that differs from it
\* by a whole number of track lengths, and normalising x again gives x.
C14_NormalizeDofs ==
    op = "NormalizeDofs" =>
        LET r == ret[1]
            L == CenLen(trk)
        IN  /\ 0 <= r
            /\ r < L
            /\ (r - inputs.d) % L = 0
            /\ r = inputs.dofs
            /\ NormalizeDofs(trk, r) = r

\* C14, the case: an offset more than one lap below zero has been
\* normalised to a positive offset.
C14_LapsBelowZero ==
    /\ op = "NormalizeDofs"
    /\ inputs.d < -CenLen(trk)
    /\ inputs.dofs > 0
    /\ ret[1] = inputs.dofs

\* C15: DofsDist of two valid offsets is the same in both orders and lies
\* in [0, L/2].
C15_DofsDist ==
    op = "DofsDist" =>
        /\ ret[1] = DofsDist(trk, inputs.dofs, inputs.p.Dofs)
        /\ 0 <= ret[1]
        /\ 2 * ret[1] <= CenLen(trk)

\* C15, the case: the two offsets are more than half a lap apart, and the
\* distance goes the short way, across the finish line.
C15_AcrossFinishLine ==
    /\ op = "DofsDist"
    /\ 2 * Abs(inputs.p.Dofs - inputs.dofs) > CenLen(trk)
    /\ ret[1] = CenLen(trk) - Abs(inputs.p.Dofs - inputs.dofs)
    /\ ret[1] > 0

\* C16: DriveDofsDist is NormalizeDofs(target - Dofs) for a pose facing
\* trackwise and NormalizeDofs(Dofs - target) for one facing
\* counter-trackwise: the value of [0, L) congruent to that difference.
C16_DriveDofsDist ==
    op = "DriveDofsDist" =>
        LET p == inputs.p
            L == CenLen(trk)
            diff == IF p.DAngle.c >= 0 THEN inputs.dofs - p.Dofs ELSE p.Dofs - inputs.dofs
        IN  /\ ret[1] = NormalizeDofs(trk, diff)
            /\ 0 <= ret[1]
            /\ ret[1] < L
            /\ (ret[1] - diff) % L = 0

\* C16, the case: a pose facing counter-trackwise with the target ahead of
\* it trackwise: the drive goes back across the finish line.
C16_CounterAcrossFinishLine ==
    /\ op = "DriveDofsDist"
    /\ inputs.p.DAngle.c < 0
    /\ inputs.p.Dofs < inputs.dofs
    /\ ret[1] = inputs.p.Dofs - inputs.dofs + CenLen(trk)

\* C17: on a track of straight pieces only, DriveDist equals DriveDofsDist:
\* 0 for a target at the pose's own Dofs, and the lap less d for a target d
\* behind the pose (in its facing direction).
C17_DriveDistStraight ==
    (op = "DriveDist" /\ \A i \in 1..NumRp(trk) : IsStraight(Rp(trk, i - 1))) =>
        LET p == inputs.p
            L == CenLen(trk)
            behind == IF p.DAngle.c >= 0 THEN p.Dofs - inputs.dofs ELSE inputs.dofs - p.Dofs
        IN  /\ ret[1] = DriveDofsDist(trk, p, inputs.dofs)
            /\ inputs.dofs = p.Dofs => ret[1] = 0
            /\ (0 < behind /\ behind < L) => ret[1] = L - behind

\* C17, the case: a target 0.25 m behind a pose facing trackwise, in the
\* same road piece, is 3.75 m of driving away on the 4 m straight track.
C17_JustBehind ==
    /\ op = "DriveDist"
    /\ trk = StraightTrack
    /\ inputs.p.DAngle = Angle0
    /\ inputs.p.Dofs = 250000
    /\ inputs.dofs = 200000
    /\ ret[1] = 750000

\* C18: DriveDeltaDist is DriveDist when that is at most half of Len(cofs),
\* the track length at the pose's lateral offset, and DriveDist - Len(cofs)
\* otherwise; its magnitude is at most Len(cofs) / 2.
C18_DriveDeltaDist ==
    op = "DriveDeltaDist" =>
        LET p == inputs.p
            len == TrackLen(trk, p.Cofs)
            dd == DriveDist(trk, p, inputs.dofs)
        IN  /\ ret[1] = IF 2 * dd <= len THEN dd ELSE dd - len
            /\ 2 * Abs(ret[1]) <= len

\* C18, the case: on the inside of the loop, where the lap is shorter than
\* on the centre line, a target more than half the inside lap but less than
\* half the centre lap ahead is reported as behind.
C18_InsideLane ==
    /\ op = "DriveDeltaDist"
    /\ trk = LoopTrack
    /\ TrackLen(trk, inputs.p.Cofs) < CenLen(trk)
    /\ 2 * DriveDist(trk, inputs.p, inputs.dofs) > TrackLen(trk, inputs.p.Cofs)
    /\ 2 * DriveDist(trk, inputs.p, inputs.dofs) < CenLen(trk)
    /\ ret[1] < 0

\* C19: DriveDeltaDofs lies in (-L/2, L/2] and is congruent modulo L to the
\* forward offset from the pose to the target; a target d behind the pose,
\* 0 < d < L/2, gives -d.
C19_DriveDeltaDofs ==
    op = "DriveDeltaDofs" =>
        LET p == inputs.p
            L == CenLen(trk)
            ahead == IF p.DAngle.c >= 0 THEN inputs.dofs - p.Dofs ELSE p.Dofs - inputs.dofs
            d == (-ahead) % L
        IN  /\ -L < 2 * ret[1]
            /\ 2 * ret[1] <= L
            /\ (ret[1] - ahead) % L = 0
            /\ (0 < d /\ 2 * d < L) => ret[1] = -d

\* C19, the case: a pose facing counter-trackwise just before the finish
\* line, the target just after it: the target is behind, across the line.
C19_BehindAcrossFinishLine ==
    /\ op = "DriveDeltaDofs"
    /\ inputs.p.DAngle.c < 0
    /\ inputs.p.Dofs > inputs.dofs
    /\ 2 * (inputs.p.Dofs - inputs.dofs) > CenLen(trk)
    /\ ret[1] = -(inputs.dofs + CenLen(trk) - inputs.p.Dofs)
    /\ ret[1] < 0

ReverseFacing(p) ==
    [p EXCEPT !.DAngle = [c |-> -p.DAngle.c, s |-> -p.DAngle.s]]

\* C20: with the pose's facing reversed and nothing else changed,
\* DriveDeltaCofs is negated for every target, and DriveDeltaDofs is negated
\* for every target but the one exactly half a track away, for which both
\* facings give +L/2.
C20_FacingReversed ==
    /\ op = "DriveDeltaCofs" =>
          DriveDeltaCofs(trk, ReverseFacing(inputs.p), inputs.cofs) = -ret[1]
    /\ op = "DriveDeltaDofs" =>
          LET L == CenLen(trk)
              rev == DriveDeltaDofs(trk, ReverseFacing(inputs.p), inputs.dofs)
              apart == Abs(inputs.dofs - inputs.p.Dofs)
          IN  /\ 2 * apart = L => (2 * ret[1] = L /\ 2 * rev = L)
              /\ 2 * apart # L => rev = -ret[1]

\* C20, the case: a pose facing counter-trackwise with the target exactly
\* half a track away.
C20_HalfTrackAway ==
    /\ op = "DriveDeltaDofs"
    /\ inputs.p.DAngle.c < 0
    /\ 2 * Abs(inputs.dofs - inputs.p.Dofs) = CenLen(trk)
    /\ 2 * ret[1] = CenLen(trk)

\* C14 as stated: NormalizeDofs of every finite offset returns, and what it
\* returns is the value of [0, L) that differs from the offset by a whole
\* number of track lengths.
C14_Terminates ==
    <>(/\ op = "NormalizeDofs"
       /\ 0 <= ret[1]
       /\ ret[1] < CenLen(trk)
       /\ (ret[1] - inputs.d.n) % CenLen(trk) = 0)

\* C21: RpiAndRpDofs of an offset d in [0, L] returns a piece index i in
\* [0, NumRp) and an offset r in [0, CenLen(piece i)] with entryDofs(i) + r = d,
\* the later piece with r = 0 at a boundary between two pieces, and the same
\* index as RpiAt(d) for d < L; for d < 0 or d > L it panics.
C21_RpiAndRpDofs ==
    op = "RpiAndRpDofs" =>
        LET d == inputs.d
            r == ret[1]
        IN  IF 0 <= d /\ d <= CenLen(trk)
            THEN /\ ~r.panic
                 /\ 0 <= r.rpi
                 /\ r.rpi < NumRp(trk)
                 /\ trk.entryDofs[r.rpi] + r.rpDofs = d
                 /\ 0 <= r.rpDofs
                 /\ r.rpDofs <= Rp(trk, r.rpi).cenLen
                 /\ \A i \in 1 .. NumRp(trk) - 1 :
                        trk.entryDofs[i] = d => (r.rpi = i /\ r.rpDofs = 0)
                 /\ d < CenLen(trk) => r.rpi = RpiAt(trk, d)
            ELSE r.panic

\* C21, the case: the offset is the boundary between the second and the
\* third piece, and the third piece is returned with offset 0.
C21_AtPieceBoundary ==
    /\ op = "RpiAndRpDofs"
    /\ inputs.d = trk.entryDofs[2]
    /\ ret[1] = [rpi |-> 2, rpDofs |-> 0, panic |-> FALSE]

\* the lap along road centre ends where it began, facing as it began
ClosedLoop(pieces) ==
    LET e == EntryPoses(pieces, Len(pieces))
    IN  e.P.X = 0 /\ e.P.Y = 0 /\ e.Theta = Angle0

\* C22: NewTrack returns an error exactly when the list has fewer than 4
\* pieces, or the width is not positive, or maxCofs is negative, or the lap
\* along road centre does not end at the starting pose; otherwise it returns
\* a track and no error.
C22_NewTrackError ==
    op = "NewTrack" =>
        /\ ret[1] # "nil" <=>
              \/ Len(inputs.pieces) < 4
              \/ inputs.width <= 0
              \/ inputs.maxCofs < 0
              \/ ~ClosedLoop(inputs.pieces)
        /\ ret[1] = "nil" =>
              /\ trk.pieces = inputs.pieces
              /\ trk.width = inputs.width
              /\ trk.maxCofs > 0

\* C22, the case: a ring of four left curves with maxCofs left at 0 is
\* taken, and maxCofs is half the width.
C22_RingOfFour ==
    /\ op = "NewTrack"
    /\ Len(inputs.pieces) = 4
    /\ inputs.maxCofs = 0
    /\ ret[1] = "nil"
    /\ trk.maxCofs = 20000

\* C23: a region that ends before the finish line contains a point exactly
\* when the point's Cofs is in [c1.Cofs, c1.Cofs + width) and its normalised
\* Dofs in [c1.Dofs, c1.Dofs + len): the start corner is inside, the points
\* at c1.Dofs + len and at c1.Cofs + width are outside.
C23_ContainsPoint ==
    (op = "ContainsPoint" /\ inputs.tr.c1.Dofs + inputs.tr.len < CenLen(trk)) =>
        LET tr == inputs.tr
            p == inputs.p
            dofs == NormalizeDofs(trk, p.Dofs)
        IN  /\ ret[1] <=> /\ tr.c1.Cofs <= p.Cofs
                          /\ p.Cofs < tr.c1.Cofs + tr.width
                          /\ tr.c1.Dofs <= dofs
                          /\ dofs < tr.c1.Dofs + tr.len
            /\ ContainsPoint(trk, tr, tr.c1)
            /\ ~ContainsPoint(trk, tr, [tr.c1 EXCEPT !.Dofs = @ + tr.len])
            /\ ~ContainsPoint(trk, tr, [tr.c1 EXCEPT !.Cofs = @ + tr.width])

\* C23, the case: a point given one lap up, which lies exactly at the far
\* end of the region and between its sides, is outside.
C23_AtFarEnd ==
    /\ op = "ContainsPoint"
    /\ inputs.tr.c1.Dofs + inputs.tr.len < CenLen(trk)
    /\ inputs.p.Dofs = inputs.tr.c1.Dofs + inputs.tr.len + CenLen(trk)
    /\ inputs.p.Cofs = inputs.tr.c1.Cofs
    /\ ret[1] = FALSE

\* C24 as stated: a region with c1.Dofs + len >= L contains a point whose
\* Cofs is between its sides exactly when the point's normalised Dofs is at
\* least c1.Dofs or below NormalizeDofs(c1.Dofs + len); with len >= L it
\* contains every distance offset; and a lap added to the point's Dofs does
\* not change the result.
C24_RegionAcrossFinishLine ==
    (op = "ContainsPoint" /\ CrossesFinishLine(trk, inputs.tr)) =>
        LET tr == inputs.tr
            p == inputs.p
            dofs == NormalizeDofs(trk, p.Dofs)
            between == tr.c1.Cofs <= p.Cofs /\ p.Cofs < tr.c1.Cofs + tr.width
        IN  /\ between =>
                (ret[1] <=> \/ dofs >= tr.c1.Dofs
                            \/ dofs < NormalizeDofs(trk, tr.c1.Dofs + tr.len))
            /\ (between /\ tr.len >= CenLen(trk)) => ret[1]
            /\ ret[1] = ContainsPoint(trk, tr, [p EXCEPT !.Dofs = @ + CenLen(trk)])

\* the inputs are two vehicles of length 0.08 m and equal width with the same
\* heading, vehicle 1 displaced by d along the length axis of vehicle 0
IsNoseToTail(in, d) ==
    /\ in[0].len = 16000 /\ in[1].len = 16000
    /\ in[0].width = in[1].width
    /\ in[0].pose.Theta = in[1].pose.Theta
    /\ in[1].pose = AdvancePose(in[0].pose, MkPose(Pt(d, 0, 1), Angle0))

\* C25: for two vehicles of length 0.08 m and equal width with the same
\* heading, displaced along their shared length axis, calcPointOfImpact reports
\* no collision when the rectangles are 0.02 m apart, and with an overlap of
\* 0.02 m it reports a collision whose point of impact is the midpoint of the
\* penetration.
C25_NoseToTail ==
    (op = "calcPointOfImpact" /\ Len(ret) = 1) =>
        /\ IsNoseToTail(inputs, 20000) => ~ ret[1].isCollision
        /\ IsNoseToTail(inputs, 12000) =>
              /\ ret[1].isCollision
              /\ ret[1].poi = PosePoint(AdvancePose(inputs[0].pose, MkPose(Pt(6000, 0, 1), Angle0)))

\* C27: the result of calcPointOfImpact does not change when the heading of
\* either vehicle is turned by half a turn, and when both poses are moved by
\* the same vector isCollision is unchanged and the point of impact moves by
\* that vector.
C27_HalfTurnAndShift ==
    (op = "calcPointOfImpact" /\ Len(ret) = 2) =>
        /\ ret[2].isCollision = ret[1].isCollision
        /\ ret[1].isCollision =>
              ret[2].poi = PtAdd(ret[1].poi, PtSub(inputs[0].pose.P, pre[0].pose.P))

\* C26: between two NewCollisions calls the new-set holds at most one event
\* per pair, the most recent one created since the previous call.  An update
\* that creates an event for a pair (its impact time is the time of the update)
\* puts that event into the new-set, replacing an older one; any other update,
\* also one in which the pair separates or is pruned, leaves the pair's entry
\* of the new-set as it is; NewCollisions returns the entries and empties the
\* set.
C26_NewSet ==
    [][/\ op' = "updateHelper" =>
            \A pair \in VehPairs(2) :
                IF pair \in DOMAIN curCollisions' /\ curCollisions'[pair].ImpactTime = now'
                THEN pair \in DOMAIN newCollisions' /\ newCollisions'[pair] = curCollisions'[pair]
                ELSE /\ (pair \in DOMAIN newCollisions') = (pair \in DOMAIN newCollisions)
                     /\ pair \in DOMAIN newCollisions => newCollisions'[pair] = newCollisions[pair]
       /\ op' = "NewCollisions" =>
            /\ newCollisions' = EmptyMap
            /\ Len(ret') = Cardinality(DOMAIN newCollisions)
            /\ SeqRange(ret') = {newCollisions[pair] : pair \in DOMAIN newCollisions}]_vars

\* NewCollisions returns the event of a pair that was pruned in the meantime
C26_ReturnedAfterPrune ==
    /\ op = "NewCollisions"
    /\ Len(ret) = 1
    /\ ret[1].ImpactTime < now
    /\ <<0, 1>> \notin DOMAIN curCollisions
    /\ IsPruned(trk, maxDimension, inputs, <<0, 1>>)

\* C28: Tick never reverses a vehicle.  Whether a vehicle faces trackwise is
\* the same before and after a Tick: the heading is untouched when the new
\* forward speed is 0, and is otherwise atan2 of the new velocity, whose
\* distance component has the sign of the facing.  A step that changes the
\* facing of a vehicle is a Reposition or a CmdUturn.
C28_FacingKept ==
    [][\A v \in DOMAIN vehs :
          /\ op' = "Tick" =>
                /\ IsFacingTrackwise(vehs'[v]) = IsFacingTrackwise(vehs[v])
                /\ vehs'[v].desDspd = 0 => vehs'[v].curPose.DAngle = vehs[v].curPose.DAngle
                /\ vehs'[v].desDspd > 0 =>
                      /\ (vehs'[v].curVel.D > 0) = IsFacingTrackwise(vehs[v])
                      /\ Abs(vehs'[v].curVel.D) = vehs'[v].desDspd
                      /\ vehs'[v].curPose.DAngle = Atan2(vehs'[v].curVel.C, vehs'[v].curVel.D)
          /\ IsFacingTrackwise(vehs'[v]) # IsFacingTrackwise(vehs[v]) =>
                op' \in {"Reposition", "CmdUturn"}]_vars

\* a vehicle facing counter-trackwise has driven a tick at a forward speed
\* above 0
C28_DrivenCounterTrackwise ==
    /\ op = "Tick"
    /\ ~ IsFacingTrackwise(pre[1])
    /\ ~ IsFacingTrackwise(vehs[1])
    /\ vehs[1].desDspd > 0
    /\ vehs[1].curVel.D < 0
    /\ vehs[1].curPose.Dofs # pre[1].curPose.Dofs

\* C29: a vehicle whose current and commanded forward speed are both 0 and
\* whose lateral offset equals its commanded lateral offset is not moved by a
\* Tick: its Dofs, Cofs, heading and odometer are the same after the tick.
C29_AtRestStays ==
    [][op' = "SimTick" =>
          \A v \in DOMAIN vehs :
              (/\ vehs[v].desDspd = 0
               /\ vehs[v].cmdDspd = 0
               /\ vehs[v].curPose.Cofs = vehs[v].cmdCofs
               /\ vehs[v].desCofs = vehs[v].cmdCofs) =>
                  /\ vehs'[v].curPose = vehs[v].curPose
                  /\ vehs'[v].odom = vehs[v].odom]_vars

\* C30: commanded targets are eventually reached and then held.  Once the
\* commands stay fixed, from some tick on the forward speed of a vehicle with
\* an acceleration above 0 equals its commanded speed, and the lateral offset
\* of a vehicle with a lateral speed other than 0 equals its commanded offset
\* limited to [-MaxCofs, +MaxCofs].
C30_TargetsReached ==
    <>[](\A v \in DOMAIN vehs :
            /\ vehs[v].cmdDacl > 0 =>
                  /\ vehs[v].desDspd = vehs[v].cmdDspd
                  /\ Abs(vehs[v].curVel.D) = vehs[v].cmdDspd
            /\ vehs[v].cmdCspd # 0 =>
                  /\ vehs[v].curPose.Cofs = Clamp(vehs[v].cmdCofs, -MaxCofs(trk), MaxCofs(trk))
                  /\ vehs[v].curPose.Cofs = vehs[v].desCofs)

\* the vehicle has come to the commanded speed, which is not a multiple of
\* the speed it gains in a tick, and to the edge of the drivable part, which is
\* nearer than the offset it was given, and has stayed so for a tick
C30_AtSpeedAtTheEdge ==
    /\ op = "SimTick"
    /\ vehs[0].cmdDacl = 6
    /\ vehs[0].cmdDspd = 100
    /\ vehs[0].desDspd = 100
    /\ pre[0].desDspd = 100
    /\ vehs[0].cmdCspd # 0
    /\ vehs[0].curPose.Cofs = MaxCofs(trk)
    /\ pre[0].curPose.Cofs = MaxCofs(trk)

====
